---- MODULE Spec2Model ----
(***************************************************************************)
(* Model of the SQL guardrail pipeline of whyline-denver:                  *)
(*   sanitize_sql          (src/whyline/sql_guardrails.py and the older    *)
(*                          src/whylinedenver/sql_guardrails.py)           *)
(*   adapt_sql_for_engine  (src/whyline/llm.py, src/whylinedenver/llm.py)  *)
(* and of the request handlers that call them.                             *)
(*                                                                         *)
(* SQL text is a sequence of atoms.  An atom is either one non-word        *)
(* character (a blank, a newline, one of , . ( ) ; - * = or a quote) or a  *)
(* non-empty run of word characters [A-Za-z0-9_]; adjacent word atoms      *)
(* concatenate into one longer word, which is how "UPDATEz" or "xFROM"     *)
(* are written.  Every decimal digit is an atom of its own.  The word      *)
(* atoms used here form a prefix-free code and no concatenation of two of  *)
(* them contains a keyword that neither of them contains, so the regular   *)
(* expressions of the source can be evaluated atom by atom.                *)
(***************************************************************************)
EXTENDS Integers, Sequences, FiniteSets, TLC

VARIABLES
    shape,      \* how the SQL string was written: its clauses, one by one
    sqlIn,      \* the SQL string handed to the pipeline / sent in the request
    cfg,        \* the GuardrailConfig of the call (plus the package revision)
    pc,         \* position of the pipeline: "start", "sanitized", "adapted"
    res,        \* outcome of sanitize_sql: returned SQL or the raised error
    adapted,    \* outcome of adapt_sql_for_engine on the sanitized SQL
    handler,    \* the entry point serving the request: an endpoint or ask
    calls,      \* the calls the handler has made, in order, with their arguments
    queryCache, \* query_cache._store: key -> number of rows of the cached frame
                \* (under SpecCache: key -> CacheEntry)
    promptCache,\* prompt_cache: engine -> the entry stored for the question
    response,   \* what the handler returned to its caller
    req,        \* the fields of the request other than its SQL
    served,     \* the number of requests the process has received
    source,     \* the partition dates present in the partitioned mart's table
    clock,      \* the time datetime.now(UTC) returns
    stateStore, \* the export state held by the BigQuery and the GCS backend
    job,        \* MartExporter.run: its position, locals and what it has done
    parquet,    \* the run_date partitions at the parquet source and in the cache
    syncState,  \* sync_state.json: the local file and its GCS mirror
    warehouse,  \* the DuckDB file: its tables and views, and its uploads
    refreshJob, \* refresh: its position, locals and what it has done
    order,      \* query_cache._order: the keys in the order they were set
    threads,    \* the threads calling query_cache: position, arguments, result
    written     \* the set calls in the order they held query_cache._lock

\* the variables of the SQL pipeline and its entry points, and those of the
\* export job
pipeVars ==
    <<shape, sqlIn, cfg, pc, res, adapted, handler, calls, queryCache, promptCache,
      response, req, served>>

refreshVars == <<parquet, syncState, warehouse, refreshJob>>

syncVars == <<source, clock, stateStore, job, refreshVars>>

cacheVars == <<order, threads, written>>

vars == <<pipeVars, syncVars, cacheVars>>

----------------------------------------------------------------------------
(* Characters and strings                                                  *)

SpaceAtoms == {" ", "\n", "\t"}
\* the backtick character (written as a name: a string cannot hold it)
BT == "BACKTICK"

PunctAtoms == {",", ".", BT, "(", ")", ";", "-", "*", "'", "="}
DigitAtoms == {"0", "1", "2", "3", "4", "5", "6", "7", "8", "9"}

IsSpace(a) == a \in SpaceAtoms
IsDigit(a) == a \in DigitAtoms
IsWord(a) == a \notin SpaceAtoms /\ a \notin PunctAtoms

\* str.upper() / str.lower() on the word atoms that carry letters in one case
UpperTable ==
    [select |-> "SELECT", with |-> "WITH", from |-> "FROM", join |-> "JOIN",
     as |-> "AS", where |-> "WHERE", limit |-> "LIMIT", drop |-> "DROP",
     update |-> "UPDATE", date_sub |-> "DATE_SUB", interval |-> "INTERVAL",
     day |-> "DAY", t_ok |-> "T_OK", secret |-> "SECRET", foo |-> "FOO",
     bar |-> "BAR", x |-> "X", z |-> "Z", nowhere |-> "NOWHERE",
     service_date_mst |-> "SERVICE_DATE_MST", proj_a |-> "PROJ_A",
     proj_b |-> "PROJ_B", ds |-> "DS", ds_b |-> "DS_B", my |-> "MY",
     proj |-> "PROJ", whyline |-> "WHYLINE", denver |-> "DENVER",
     true |-> "TRUE", yes |-> "YES", on |-> "ON", off |-> "OFF",
     mart_denver |-> "MART_DENVER", current_date |-> "CURRENT_DATE"]

Upper(a) == IF a \in DOMAIN UpperTable THEN UpperTable[a] ELSE a

Lower(a) ==
    IF \E k \in DOMAIN UpperTable : UpperTable[k] = a
    THEN CHOOSE k \in DOMAIN UpperTable : UpperTable[k] = a
    ELSE a

UpperSeq(s) == [i \in 1..Len(s) |-> Upper(s[i])]
LowerSeq(s) == [i \in 1..Len(s) |-> Lower(s[i])]

\* the pairs <<atom, needle>> (upper case) where the needle occurs strictly
\* inside the atom's text
InfixPairs == {<<"NOWHERE", "WHERE">>}

\* `needle in text` for a one-atom needle
Contains(s, needle) ==
    \E i \in 1..Len(s) : s[i] = needle \/ <<s[i], needle>> \in InfixPairs

RECURSIVE LStrip(_)
LStrip(s) == IF s # <<>> /\ IsSpace(s[1]) THEN LStrip(Tail(s)) ELSE s

RECURSIVE RStrip(_)
RStrip(s) ==
    IF s # <<>> /\ IsSpace(s[Len(s)]) THEN RStrip(SubSeq(s, 1, Len(s) - 1)) ELSE s

Strip(s) == RStrip(LStrip(s))

\* str.strip of backticks
RECURSIVE StripTicks(_)
StripTicks(s) ==
    IF s # <<>> /\ s[1] = BT THEN StripTicks(Tail(s))
    ELSE IF s # <<>> /\ s[Len(s)] = BT THEN StripTicks(SubSeq(s, 1, Len(s) - 1))
    ELSE s

Range(q) == {q[i] : i \in 1..Len(q)}

\* the element of a one-element set; The({f(x) : x \in {e}}) is f(e), a local
\* variable x assigned e once and read in f
The(S) == CHOOSE x \in S : TRUE

\* str(int): the decimal digits of a natural number
DigitChars == <<"0", "1", "2", "3", "4", "5", "6", "7", "8", "9">>

RECURSIVE Decimal(_)
Decimal(n) ==
    IF n < 10 THEN <<DigitChars[n + 1]>>
    ELSE Decimal(n \div 10) \o <<DigitChars[(n % 10) + 1]>>

\* first index >= i that holds no whitespace atom (Len(s) + 1 when none)
RECURSIVE SkipSpaces(_, _)
SkipSpaces(s, i) ==
    IF i <= Len(s) /\ IsSpace(s[i]) THEN SkipSpaces(s, i + 1) ELSE i

\* \b in front of the word atom at i, and behind it
BoundaryBefore(s, i) == i = 1 \/ ~IsWord(s[i - 1])
BoundaryAfter(s, i) == i = Len(s) \/ ~IsWord(s[i + 1])

\* re.search(r"\bKW\b", s) on upper-cased text
HasWholeWord(s, kw) ==
    \E i \in 1..Len(s) : s[i] = kw /\ BoundaryBefore(s, i) /\ BoundaryAfter(s, i)

----------------------------------------------------------------------------
(* Regular expressions of sql_guardrails.py                                *)

\* the None of Python, distinct from every string (also from the empty string)
None == <<"<None>">>

\* None where a collection of strings is expected
NoneSet == {None}

DENYLIST_KEYWORDS ==
    {"INSERT", "UPDATE", "DELETE", "CREATE", "DROP", "ALTER", "MERGE",
     "TRUNCATE", "GRANT", "REVOKE", "CALL", "LOAD", "EXPORT", "COPY"}

SAFE_LIMIT == 5000

\* first index >= i holding a backtick, 0 when there is none
RECURSIVE NextTick(_, _)
NextTick(s, i) ==
    IF i > Len(s) THEN 0 ELSE IF s[i] = BT THEN i ELSE NextTick(s, i + 1)

\* first index >= i that is not matched by [\w-]
RECURSIVE RunEnd(_, _)
RunEnd(s, i) ==
    IF i <= Len(s) /\ (IsWord(s[i]) \/ s[i] = "-") THEN RunEnd(s, i + 1) ELSE i

\* first index >= i that is not matched by \w
RECURSIVE WordEnd(_, _)
WordEnd(s, i) ==
    IF i <= Len(s) /\ IsWord(s[i]) THEN WordEnd(s, i + 1) ELSE i

\* `[^`]+`  at j: index behind the closing backtick, 0 when it does not match
TickSegEnd(s, j) ==
    IF j <= Len(s) /\ s[j] = BT
    THEN LET k == NextTick(s, j + 1) IN IF k > j + 1 THEN k + 1 ELSE 0
    ELSE 0

\* (?:`[^`]+`|[\w-]+) at j: index behind the segment, 0 when it does not match
SegEnd(s, j) ==
    IF j > Len(s) THEN 0
    ELSE IF s[j] = BT THEN TickSegEnd(s, j)
    ELSE IF IsWord(s[j]) \/ s[j] = "-" THEN RunEnd(s, j)
    ELSE 0

\* one optional (?:\.<segment>) behind index e
DotSegEnd(s, e) ==
    IF e <= Len(s) /\ s[e] = "." /\ SegEnd(s, e + 1) # 0 THEN SegEnd(s, e + 1) ELSE e

\* <segment>(?:\.<segment>){0,2} at j, greedy
IdentEnd(s, j) ==
    LET e1 == SegEnd(s, j)
    IN  IF e1 = 0 THEN 0 ELSE DotSegEnd(s, DotSegEnd(s, e1))

\* \b(?:FROM|JOIN)\s+ at i (IGNORECASE): index of the first atom behind the
\* whitespace, 0 when it does not match
ClauseEnd(s, i) ==
    IF /\ i < Len(s)
       /\ Upper(s[i]) \in {"FROM", "JOIN"}
       /\ BoundaryBefore(s, i)
       /\ IsSpace(s[i + 1])
    THEN SkipSpaces(s, i + 1)
    ELSE 0

NoMatch == [start |-> 0, tok |-> 0, end |-> 0]

\* TABLE_PATTERN.match at i: the match spans start..end-1, group(1) tok..end-1
TableMatchAt(s, i) ==
    The({IF j = 0 THEN NoMatch
         ELSE The({IF e = 0 THEN NoMatch ELSE [start |-> i, tok |-> j, end |-> e] :
                   e \in {IdentEnd(s, j)}}) :
         j \in {ClauseEnd(s, i)}})

\* TABLE_PATTERN.finditer(s): leftmost non-overlapping matches from p on
RECURSIVE TableMatches(_, _)
TableMatches(s, p) ==
    IF p > Len(s) THEN <<>>
    ELSE IF TableMatchAt(s, p) = NoMatch THEN TableMatches(s, p + 1)
    ELSE The({<<m>> \o TableMatches(s, m.end) : m \in {TableMatchAt(s, p)}})

\* (`[^`]+`|[a-zA-Z_][\w-]*) at j
CteNameEnd(s, j) ==
    IF j > Len(s) THEN 0
    ELSE IF s[j] = BT THEN TickSegEnd(s, j)
    ELSE IF IsWord(s[j]) /\ ~IsDigit(s[j]) THEN RunEnd(s, j)
    ELSE 0

\* CTE_PATTERN.match at i.  whyline:       (?:\bWITH\b|,)\s+(name)\s+AS\s*\(
\*                          whylinedenver: \bWITH\s+(name)\s+AS\s*\(
CteMatchAt(s, i, pkg) ==
    LET headOk == \/ Upper(s[i]) = "WITH" /\ BoundaryBefore(s, i)
                  \/ pkg = "whyline" /\ s[i] = ","
        j  == SkipSpaces(s, i + 1)
        e  == CteNameEnd(s, j)
        k  == SkipSpaces(s, e)
        m  == SkipSpaces(s, k + 1)
    IN  IF /\ i < Len(s)
           /\ headOk
           /\ IsSpace(s[i + 1])
           /\ e # 0
           /\ e <= Len(s)
           /\ IsSpace(s[e])
           /\ k <= Len(s)
           /\ Upper(s[k]) = "AS"
           /\ m <= Len(s)
           /\ s[m] = "("
        THEN [start |-> i, tok |-> j, end |-> e, stop |-> m + 1]
        ELSE [start |-> 0, tok |-> 0, end |-> 0, stop |-> 0]

\* CTE_PATTERN.findall(s): the captured names, left to right
RECURSIVE CteNames(_, _, _)
CteNames(s, p, pkg) ==
    IF p > Len(s) THEN <<>>
    ELSE IF CteMatchAt(s, p, pkg).start = 0 THEN CteNames(s, p + 1, pkg)
    ELSE The({<<SubSeq(s, m.tok, m.end - 1)>> \o CteNames(s, m.stop, pkg) :
              m \in {CteMatchAt(s, p, pkg)}})

\* the set of CTE names, backticks stripped and lower-cased
CteSet(s, pkg) == {LowerSeq(StripTicks(name)) : name \in Range(CteNames(s, 1, pkg))}

\* LIMIT_PATTERN.search(s) without the IGNORECASE flag
LimitMatch_CaseSensitive(s) ==
    \E i \in 1..Len(s) :
        /\ s[i] = "LIMIT"
        /\ BoundaryBefore(s, i)
        /\ i < Len(s)
        /\ IsSpace(s[i + 1])
        /\ LET j == SkipSpaces(s, i + 1) IN j <= Len(s) /\ IsDigit(s[j])

\* LIMIT_PATTERN.search(s):  \bLIMIT\s+(\d+)  (IGNORECASE)
LimitMatch(s) ==
    \E i \in 1..Len(s) :
        /\ Upper(s[i]) = "LIMIT"
        /\ BoundaryBefore(s, i)
        /\ i < Len(s)
        /\ IsSpace(s[i + 1])
        /\ LET j == SkipSpaces(s, i + 1) IN j <= Len(s) /\ IsDigit(s[j])

----------------------------------------------------------------------------
(* sanitize_sql and its stages                                             *)

\* outcome of sanitize_sql: the returned SQL, or the SqlValidationError
\* raised (its stage and the names its message lists)
Ok(sql) == [ok |-> TRUE, sql |-> sql, stage |-> "ok", names |-> {}]
Err(stage, names) == [ok |-> FALSE, sql |-> <<>>, stage |-> stage, names |-> names]

Last(q) == q[Len(q)]

\* index of the first "." at or behind i, 0 when there is none
RECURSIVE FirstDot(_, _)
FirstDot(s, i) ==
    IF i > Len(s) THEN 0 ELSE IF s[i] = "." THEN i ELSE FirstDot(s, i + 1)

\* str.split(".")
RECURSIVE SplitDots(_)
SplitDots(s) ==
    LET d == FirstDot(s, 1)
    IN  IF d = 0 THEN <<s>>
        ELSE <<SubSeq(s, 1, d - 1)>> \o SplitDots(SubSeq(s, d + 1, Len(s)))

NonEmpty(seg) == seg # <<>>

_split_identifier(identifier) ==
    LET token == Strip(identifier)
        segs  == SelectSeq(SplitDots(token), NonEmpty)
    IN  The({IF token = <<>> \/ n = 0
             THEN [project |-> None, dataset |-> None, table |-> None]
             ELSE IF n = 1
             THEN [project |-> None, dataset |-> None, table |-> parts[1]]
             ELSE IF n = 2
             THEN [project |-> None, dataset |-> parts[1], table |-> parts[2]]
             ELSE [project |-> parts[n - 2], dataset |-> parts[n - 1], table |-> parts[n]] :
             parts \in {[i \in 1..Len(segs) |-> LowerSeq(StripTicks(segs[i]))]},
             n \in {Len(segs)}})

\* truth value of an optional string: neither None nor empty
Truthy(v) == v # None /\ v # <<>>

\* _normalize raises "No SQL provided."
NormalizeRaises(sql) == sql = <<>> \/ Strip(sql) = <<>>

\* _normalize keeping the trailing semicolon
_normalize_KeepSemicolon(sql) == Strip(sql)

_normalize(sql) ==
    LET trimmed == Strip(sql)
    IN  IF trimmed # <<>> /\ Last(trimmed) = ";"
        THEN Strip(SubSeq(trimmed, 1, Len(trimmed) - 1))
        ELSE trimmed

\* _ensure_single_statement raises
MultipleStatements(sql) == Contains(sql, ";")

\* str.startswith(kw): no atom used here has a keyword as a proper prefix
StartsWith(s, kw) == s # <<>> /\ s[1] = kw

\* first half of _ensure_read_only: the stage of the error raised, "ok" if none
ReadOnlyPrefix(sql) ==
    LET upper_sql == UpperSeq(LStrip(sql))
    IN  IF StartsWith(upper_sql, "WITH")
        THEN IF ~Contains(upper_sql, "SELECT") THEN "cte_no_select" ELSE "ok"
        ELSE IF ~StartsWith(upper_sql, "SELECT") THEN "not_select" ELSE "ok"

\* the loop of _ensure_read_only searching the text as written
DenylistHits_CaseSensitive(sql) ==
    {kw \in DENYLIST_KEYWORDS : HasWholeWord(LStrip(sql), kw)}

\* second half of _ensure_read_only: the denylisted keywords the loop can hit
DenylistHits(sql) ==
    {kw \in DENYLIST_KEYWORDS : HasWholeWord(UpperSeq(LStrip(sql)), kw)}

\* _compile_allowed_sets returning the union of the explicit and derived sets
_compile_allowed_sets_Union(allowed_models, explicit_projects, explicit_datasets) ==
    LET norm(explicit) ==
            IF explicit = NoneSet THEN {}
            ELSE {LowerSeq(StripTicks(e)) : e \in {x \in explicit : x # <<>>}}
    IN  The({[base     |-> {m.table : m \in {x \in split : Truthy(x.table)}},
              projects |-> norm(explicit_projects)
                              \cup {m.project : m \in {x \in split : Truthy(x.project)}},
              datasets |-> norm(explicit_datasets)
                              \cup {m.dataset : m \in {x \in split : Truthy(x.dataset)}}] :
             split \in {{_split_identifier(m) : m \in allowed_models}}})

_compile_allowed_sets(allowed_models, explicit_projects, explicit_datasets) ==
    LET norm(explicit) ==
            IF explicit = NoneSet THEN {}
            ELSE {LowerSeq(StripTicks(e)) : e \in {x \in explicit : x # <<>>}}
    IN  The({[base     |-> {m.table : m \in {x \in split : Truthy(x.table)}},
              projects |-> IF allowed_projects # {} THEN allowed_projects
                           ELSE {m.project : m \in {x \in split : Truthy(x.project)}},
              datasets |-> IF allowed_datasets # {} THEN allowed_datasets
                           ELSE {m.dataset : m \in {x \in split : Truthy(x.dataset)}}] :
             split \in {{_split_identifier(m) : m \in allowed_models}},
             allowed_projects \in {norm(explicit_projects)},
             allowed_datasets \in {norm(explicit_datasets)}})

\* the (project, dataset, table, token) tuples of the FROM/JOIN matches
RawReferences(sql) ==
    LET ref(token) ==
            The({[project |-> id.project, dataset |-> id.dataset,
                  table |-> id.table, token |-> token] :
                 id \in {_split_identifier(token)}})
        hasTable(r) == r.table # None
    IN  The({SelectSeq([i \in 1..Len(ms) |->
                           ref(Strip(SubSeq(sql, ms[i].tok, ms[i].end - 1)))],
                       hasTable) :
             ms \in {TableMatches(sql, 1)}})

\* _extract_referenced_identifiers dropping only unqualified CTE names
_extract_referenced_identifiers_BareOnly(sql, pkg) ==
    LET ctes == CteSet(sql, pkg)
        notCte(r) == r.table \notin ctes \/ r.dataset # None
    IN  SelectSeq(RawReferences(sql), notCte)

_extract_referenced_identifiers(sql, pkg) ==
    LET ctes == CteSet(sql, pkg)
        notCte(r) == r.table \notin ctes
    IN  SelectSeq(RawReferences(sql), notCte)

\* _ensure_tables_are_allowlisted comparing the references as they are written
Unauthorized_AsWritten(references, allowed_tables) ==
    {r.table : r \in {x \in Range(references) : x.token \notin allowed_tables}}

\* _ensure_tables_are_allowlisted: the unauthorized table names (raises if any)
Unauthorized(references, allowed_tables) ==
    {r.table : r \in {x \in Range(references) : x.table \notin allowed_tables}}

\* _ensure_authorized_namespaces: the tokens collected in invalid_projects
InvalidProjects(references, allowed_projects, allowed_datasets) ==
    IF allowed_projects = {} /\ allowed_datasets = {} THEN {}
    ELSE {r.token : r \in {x \in Range(references) :
              Truthy(x.project) /\ allowed_projects # {}
                  /\ x.project \notin allowed_projects}}

\* _ensure_authorized_namespaces: the tokens collected in invalid_datasets
InvalidDatasets(references, allowed_projects, allowed_datasets) ==
    IF allowed_projects = {} /\ allowed_datasets = {} THEN {}
    ELSE {r.token : r \in {x \in Range(references) :
              Truthy(x.dataset) /\ allowed_datasets # {}
                  /\ x.dataset \notin allowed_datasets}}

\* _validate_tables of src/whylinedenver: base names only
LegacyUnauthorized(sql, allowed_models) ==
    LET allowed_base ==
            {Last(SplitDots(LowerSeq(StripTicks(m)))) : m \in allowed_models}
        parts(m) ==
            LET segs == SelectSeq(SplitDots(Strip(SubSeq(sql, m.tok, m.end - 1))),
                                  NonEmpty)
            IN  [i \in 1..Len(segs) |-> StripTicks(segs[i])]
        referenced_base ==
            {LowerSeq(Last(part)) :
                 part \in {parts(m) : m \in Range(TableMatches(sql, 1))} \ {<<>>}}
    IN  (referenced_base \ CteSet(sql, "whylinedenver")) \ allowed_base

\* _validate_tables: the error it raises, Ok when it returns
_validate_tables(sql, c) ==
    IF c.pkg = "whylinedenver"
    THEN The({IF bad # {} THEN Err("tables", bad) ELSE Ok(sql) :
              bad \in {LegacyUnauthorized(sql, c.allowed_models)}})
    ELSE The({LET bad == Unauthorized(references, allowed.base)
                  badP == InvalidProjects(references, allowed.projects, allowed.datasets)
                  badD == InvalidDatasets(references, allowed.projects, allowed.datasets)
              IN  IF bad # {} THEN Err("tables", bad)
                  ELSE IF badP # {} THEN Err("projects", badP)
                  ELSE IF badD # {} THEN Err("datasets", badD)
                  ELSE Ok(sql) :
              allowed \in {_compile_allowed_sets(c.allowed_models, c.allowed_projects,
                                                 c.allowed_datasets)},
              references \in {_extract_referenced_identifiers(sql, c.pkg)}})

\* _ensure_limit appending the clause on the last line of the statement
_ensure_limit_SameLine(sql, max_rows) ==
    IF LimitMatch(sql) THEN sql
    ELSE sql \o <<" ", "LIMIT", " ">> \o Decimal(max_rows)

_ensure_limit(sql, max_rows) ==
    IF LimitMatch(sql) THEN sql
    ELSE sql \o <<"\n", "LIMIT", " ">> \o Decimal(max_rows)

\* TABLE_PATTERN.sub(replacer, sql) of _quote_hyphenated_tables, from p on
RECURSIVE QuoteFrom(_, _)
QuoteFrom(s, p) ==
    IF p > Len(s) THEN <<>>
    ELSE IF TableMatchAt(s, p) = NoMatch THEN <<s[p]>> \o QuoteFrom(s, p + 1)
    ELSE The({LET token == SubSeq(s, m.tok, m.end - 1)
                  keep  == \/ token[1] = BT /\ Last(token) = BT
                           \/ \A i \in 1..Len(token) : token[i] # "-"
              IN  (IF keep THEN SubSeq(s, m.start, m.end - 1)
                   ELSE SubSeq(s, m.start, m.tok - 1) \o <<BT>> \o token \o <<BT>>)
                  \o QuoteFrom(s, m.end) :
              m \in {TableMatchAt(s, p)}})

_quote_hyphenated_tables(sql) == QuoteFrom(sql, 1)

\* the condition of _suggest_partition_filter looking for the word WHERE
NeedsPartitionFilter_Word(upper_sql, column) ==
    Contains(upper_sql, Upper(column)) /\ ~HasWholeWord(upper_sql, "WHERE")

\* the condition of the loop of _suggest_partition_filter
NeedsPartitionFilter(upper_sql, column) ==
    Contains(upper_sql, Upper(column)) /\ ~Contains(upper_sql, "WHERE")

\* _suggest_partition_filter: the columns for which the loop would raise
\* (it raises for the first of them)
RECURSIVE PartitionHit(_, _, _)
PartitionHit(sql, partition_columns, i) ==
    LET upper_sql == UpperSeq(sql)
    IN  IF i > Len(partition_columns) THEN None
        ELSE IF NeedsPartitionFilter(upper_sql, partition_columns[i])
        THEN <<partition_columns[i]>>
        ELSE PartitionHit(sql, partition_columns, i + 1)

\* sanitize_sql validating the tables ahead of the read-only checks
sanitize_sql_TablesFirst(sql, c) ==
    IF NormalizeRaises(sql) THEN {Err("empty", {})}
    ELSE
    LET parsed == _normalize(sql)
        prefix == ReadOnlyPrefix(parsed)
        hits   == DenylistHits(parsed)
        limited == _ensure_limit(parsed, c.enforce_limit)
        column(sanitized) == PartitionHit(sanitized, c.partition_columns, 1)
    IN  IF MultipleStatements(parsed) THEN {Err("multiple", {})}
        ELSE UNION {
            IF ~tables.ok THEN {tables}
            ELSE IF prefix # "ok" THEN {Err(prefix, {})}
            ELSE IF hits # {} THEN {Err("denylist", {<<kw>>}) : kw \in hits}
            ELSE UNION {
                IF c.engine = "bigquery" /\ column(sanitized) # None
                THEN {Err("partition", {column(sanitized)})}
                ELSE {Ok(sanitized)} :
                sanitized \in {IF c.engine = "bigquery" /\ c.pkg = "whyline"
                               THEN _quote_hyphenated_tables(limited) ELSE limited}} :
            tables \in {_validate_tables(parsed, c)}}

\* sanitize_sql(sql, config): the set of possible outcomes (the denylist is a
\* Python set, so the keyword reported is any of those present)
sanitize_sql(sql, c) ==
    IF NormalizeRaises(sql) THEN {Err("empty", {})}
    ELSE
    LET parsed == _normalize(sql)
        prefix == ReadOnlyPrefix(parsed)
        hits   == DenylistHits(parsed)
        limited == _ensure_limit(parsed, c.enforce_limit)
        column(sanitized) == PartitionHit(sanitized, c.partition_columns, 1)
    IN  IF MultipleStatements(parsed) THEN {Err("multiple", {})}
        ELSE IF prefix # "ok" THEN {Err(prefix, {})}
        ELSE IF hits # {} THEN {Err("denylist", {<<kw>>}) : kw \in hits}
        ELSE UNION {
            IF ~tables.ok THEN {tables}
            ELSE UNION {
                IF c.engine = "bigquery" /\ column(sanitized) # None
                THEN {Err("partition", {column(sanitized)})}
                ELSE {Ok(sanitized)} :
                sanitized \in {IF c.engine = "bigquery" /\ c.pkg = "whyline"
                               THEN _quote_hyphenated_tables(limited) ELSE limited}} :
            tables \in {_validate_tables(parsed, c)}}

----------------------------------------------------------------------------
(* adapt_sql_for_engine                                                    *)

\* settings.GCP_PROJECT_ID and settings.BQ_DATASET_MART (the defaults)
GCP_PROJECT_ID == <<"whyline", "-", "denver">>
BQ_DATASET_MART == <<"mart_denver">>

\* \s*,\s*INTERVAL\s+(\d+)\s+DAY\s*\)  at e (IGNORECASE): the index behind
\* the closing parenthesis and the digits, end = 0 when it does not match
RECURSIVE DigitsEnd(_, _)
DigitsEnd(s, i) ==
    IF i <= Len(s) /\ IsDigit(s[i]) THEN DigitsEnd(s, i + 1) ELSE i

DateSubRest(s, e) ==
    LET k  == SkipSpaces(s, e)
        k2 == SkipSpaces(s, k + 1)
        d  == SkipSpaces(s, k2 + 1)
        dE == DigitsEnd(s, d)
        y  == SkipSpaces(s, dE)
        r  == SkipSpaces(s, y + 1)
    IN  IF /\ k <= Len(s) /\ s[k] = ","
           /\ k2 < Len(s) /\ Upper(s[k2]) = "INTERVAL"
           /\ IsSpace(s[k2 + 1])
           /\ d <= Len(s) /\ IsDigit(s[d])
           /\ dE <= Len(s) /\ IsSpace(s[dE])
           /\ y <= Len(s) /\ Upper(s[y]) = "DAY"
           /\ r <= Len(s) /\ s[r] = ")"
        THEN [end |-> r + 1, days |-> SubSeq(s, d, dE - 1)]
        ELSE [end |-> 0, days |-> <<>>]

\* the lazy (.+?) started at a: the least e > a with the rest matching at e
\* and no newline in a..e-1; 0 when there is none
RECURSIVE LazyExprEnd(_, _, _)
LazyExprEnd(s, a, e) ==
    IF e > Len(s) + 1 \/ a > Len(s) THEN 0
    ELSE IF s[e - 1] = "\n" THEN 0
    ELSE IF DateSubRest(s, e).end # 0 THEN e
    ELSE LazyExprEnd(s, a, e + 1)

\* DATE_SUB_PATTERN.match at i:  DATE_SUB\(\s*(.+?)\s*,\s*INTERVAL ... \)
DateSubMatchAt(s, i) ==
    IF ~(i < Len(s) /\ Upper(s[i]) = "DATE_SUB" /\ s[i + 1] = "(")
    THEN [end |-> 0, expr |-> <<>>, days |-> <<>>]
    ELSE The({The({The({
             IF e # 0
             THEN [end |-> rest.end, expr |-> Strip(SubSeq(s, a0, e - 1)),
                   days |-> rest.days]
             \* \s* gives one blank back to (.+?) when nothing else matches
             ELSE IF a0 > i + 2 /\ s[a0 - 1] # "\n" /\ rest.end # 0
             THEN [end |-> rest.end, expr |-> <<>>, days |-> rest.days]
             ELSE [end |-> 0, expr |-> <<>>, days |-> <<>>] :
             rest \in {DateSubRest(s, IF e # 0 THEN e ELSE a0)}}) :
             e \in {LazyExprEnd(s, a0, a0 + 1)}}) :
             a0 \in {SkipSpaces(s, i + 2)}})

\* DATE_SUB_PATTERN.sub(_duckdb_date_sub_replacer, s), from p on
RECURSIVE DateSubFrom(_, _)
DateSubFrom(s, p) ==
    IF p > Len(s) THEN <<>>
    ELSE IF DateSubMatchAt(s, p).end = 0 THEN <<s[p]>> \o DateSubFrom(s, p + 1)
    ELSE The({m.expr \o <<" ", "-", " ", "INTERVAL", " ", "'">> \o m.days
                  \o <<"'", " ", "DAY">> \o DateSubFrom(s, m.end) :
              m \in {DateSubMatchAt(s, p)}})

\* (?P<alias>\s+AS\s+\w+|\s+\w+)?  at e: the index behind the alias
AliasEnd(s, e) ==
    LET k == SkipSpaces(s, e)
        m == SkipSpaces(s, k + 1)
    IN  IF ~(e <= Len(s) /\ IsSpace(s[e]) /\ k <= Len(s) /\ IsWord(s[k])) THEN e
        ELSE IF /\ Upper(s[k]) = "AS" /\ k < Len(s) /\ IsSpace(s[k + 1])
                /\ m <= Len(s) /\ IsWord(s[m])
        THEN WordEnd(s, m)
        ELSE WordEnd(s, k)

\* [`\w.]+ at j, the table group of src/whylinedenver/llm.py
RECURSIVE LegacyTableEnd(_, _)
LegacyTableEnd(s, j) ==
    IF j <= Len(s) /\ (IsWord(s[j]) \/ s[j] = BT \/ s[j] = ".")
    THEN LegacyTableEnd(s, j + 1) ELSE j

\* TABLE_PATTERN of llm.py at i: clause, table group tok..end-1, alias end..stop-1
LlmTableMatchAt(s, i, pkg) ==
    The({The({IF e = 0 THEN [start |-> 0, tok |-> 0, end |-> 0, stop |-> 0]
              ELSE [start |-> i, tok |-> j, end |-> e, stop |-> AliasEnd(s, e)] :
              e \in {IF j = 0 THEN 0
                     ELSE IF pkg = "whyline" THEN IdentEnd(s, j)
                     ELSE IF LegacyTableEnd(s, j) > j THEN LegacyTableEnd(s, j) ELSE 0}}) :
         j \in {ClauseEnd(s, i)}})

\* TABLE_PATTERN.sub(replacer, sql) of _qualify_bigquery_tables, from p on
RECURSIVE QualifyFrom(_, _, _, _, _)
QualifyFrom(s, p, models, cte_names, pkg) ==
    IF p > Len(s) THEN <<>>
    ELSE IF LlmTableMatchAt(s, p, pkg).start = 0
    THEN <<s[p]>> \o QualifyFrom(s, p + 1, models, cte_names, pkg)
    ELSE The({LET raw_table == StripTicks(SubSeq(s, m.tok, m.end - 1))
                  alias == SubSeq(s, m.end, m.stop - 1)
                  table_name == IF raw_table \in DOMAIN models
                                THEN models[raw_table].name ELSE raw_table
                  qualified == <<BT>> \o GCP_PROJECT_ID \o <<".">>
                                 \o BQ_DATASET_MART \o <<".">> \o table_name
                                 \o <<BT>>
                  keep == \/ LowerSeq(raw_table) \in cte_names
                          \/ FirstDot(raw_table, 1) # 0
              IN  (IF keep THEN SubSeq(s, m.start, m.stop - 1)
                   ELSE <<s[m.start], " ">> \o qualified \o alias)
                  \o QualifyFrom(s, m.stop, models, cte_names, pkg) :
              m \in {LlmTableMatchAt(s, p, pkg)}})

\* _qualify_bigquery_tables without the test for CTE names
_qualify_bigquery_tables_NoCteTest(sql, models, pkg) == QualifyFrom(sql, 1, models, {}, pkg)

\* src/whyline skips the CTE names; src/whylinedenver has no such test
_qualify_bigquery_tables(sql, models, pkg) ==
    QualifyFrom(sql, 1, models,
                IF pkg = "whyline" THEN CteSet(sql, "whyline") ELSE {}, pkg)

adapt_sql_for_engine(sql, engine, models, pkg) ==
    The({IF engine = "bigquery" /\ DOMAIN models # {}
         THEN _qualify_bigquery_tables(dated, models, pkg)
         ELSE dated :
         dated \in {IF engine = "duckdb" THEN DateSubFrom(sql, 1) ELSE sql}})

----------------------------------------------------------------------------
(* The SQL strings and configurations the pipeline is run on               *)

\* table references as they are written behind FROM / JOIN / a comma
RefText ==
    [t_ok     |-> <<"t_ok">>,
     T_OK     |-> <<"T_OK">>,
     q_t_ok   |-> <<BT, "t_ok", BT>>,
     secret   |-> <<"secret">>,
     foo      |-> <<"foo">>,
     bar      |-> <<"bar">>,
     pa_t_ok  |-> <<"proj_a", ".", "ds", ".", "t_ok">>,
     pb_t_ok  |-> <<"proj_b", ".", "ds", ".", "t_ok">>,
     dsb_t_ok |-> <<"ds_b", ".", "t_ok">>,
     hy_t_ok  |-> <<"my", "-", "proj", ".", "ds", ".", "t_ok">>,
     qhy_t_ok |-> <<BT, "my", "-", "proj", ".", "ds", ".", "t_ok", BT>>,
     pq_t_ok  |-> <<BT, "my", "-", "proj", BT, ".", "ds", ".", "t_ok">>,
     pb_foo   |-> <<"proj_b", ".", "ds", ".", "foo">>]

\* what each reference denotes: project, dataset and base table, lower case
\* (None where the reference does not name one)
RefMeaning ==
    [t_ok     |-> [project |-> None, dataset |-> None, table |-> <<"t_ok">>],
     T_OK     |-> [project |-> None, dataset |-> None, table |-> <<"t_ok">>],
     q_t_ok   |-> [project |-> None, dataset |-> None, table |-> <<"t_ok">>],
     secret   |-> [project |-> None, dataset |-> None, table |-> <<"secret">>],
     foo      |-> [project |-> None, dataset |-> None, table |-> <<"foo">>],
     bar      |-> [project |-> None, dataset |-> None, table |-> <<"bar">>],
     pa_t_ok  |-> [project |-> <<"proj_a">>, dataset |-> <<"ds">>, table |-> <<"t_ok">>],
     pb_t_ok  |-> [project |-> <<"proj_b">>, dataset |-> <<"ds">>, table |-> <<"t_ok">>],
     dsb_t_ok |-> [project |-> None, dataset |-> <<"ds_b">>, table |-> <<"t_ok">>],
     hy_t_ok  |-> [project |-> <<"my", "-", "proj">>, dataset |-> <<"ds">>,
                   table |-> <<"t_ok">>],
     qhy_t_ok |-> [project |-> <<"my", "-", "proj">>, dataset |-> <<"ds">>,
                   table |-> <<"t_ok">>],
     pq_t_ok  |-> [project |-> <<"my", "-", "proj">>, dataset |-> <<"ds">>,
                   table |-> <<"t_ok">>],
     pb_foo   |-> [project |-> <<"proj_b">>, dataset |-> <<"ds">>, table |-> <<"foo">>]]

Refs == DOMAIN RefText

CteBody == <<"(", "SELECT", " ", "1", ")">>

\* the WITH list in front of the statement, and the names it binds
WithText ==
    [none   |-> <<>>,
     one    |-> <<"WITH", " ", "foo", " ", "AS", " ">> \o CteBody \o <<" ">>,
     two    |-> <<"WITH", " ", "foo", " ", "AS", " ">> \o CteBody
                  \o <<",", " ", "bar", " ", "AS", " ">> \o CteBody \o <<" ">>,
     quoted |-> <<"with", "\n", BT, "foo", BT, " ", "as">> \o CteBody
                  \o <<",", "\n", BT, "bar", BT, " ", "AS", " ">> \o CteBody \o <<"\n">>]

WithNames ==
    [none |-> {}, one |-> {<<"foo">>}, two |-> {<<"foo">>, <<"bar">>},
     quoted |-> {<<"foo">>, <<"bar">>}]

SelectText ==
    [x       |-> <<"SELECT", " ", "x">>,
     part    |-> <<"select", " ", "service_date_mst">>,
     embed   |-> <<"SELECT", " ", "z", "UPDATE", ",", " ", "drop", "z">>,
     literal |-> <<"SELECT", " ", "'", "drop", "'", ",", " ", "UPDATE">>,
     lower   |-> <<"SELECT", " ", "x", ",", " ", "update">>,
     drop    |-> <<"DROP", " ", "x">>,
     cte     |-> <<"WITH", " ", "x">>,
     semi    |-> <<"SELECT", " ", "'", ";", "'">>,
     empty   |-> <<>>]

TailText ==
    [none    |-> <<>>,
     where   |-> <<" ", "WHERE", " ", "x", " ", "=", " ", "1">>,
     limit   |-> <<"\n", "limit", " ", "9", "9", "9", "9">>,
     nowhere |-> <<" ", "nowhere">>,
     datesub |-> <<" ", "WHERE", " ", "x", " ", "=", " ", "DATE_SUB", "(",
                   "current_date", ",", " ", "INTERVAL", " ", "3", "0", " ",
                   "DAY", ")">>]

EndText ==
    [none  |-> <<>>,
     semi  |-> <<";">>,
     semi2 |-> <<";", ";">>,
     pad   |-> <<" ", ";", "\n">>,
     stmt2 |-> <<";", " ", "DROP", " ", "x">>]

Joiners == [join |-> <<" ", "JOIN", " ">>, comma |-> <<",", " ">>]

NoRef == "none"
NoJoin == <<"none", "none">>

FromText(f) == IF f = NoRef THEN <<>> ELSE <<" ", "FROM", " ">> \o RefText[f]
JoinText(j) == IF j = NoJoin THEN <<>> ELSE Joiners[j[1]] \o RefText[j[2]]

\* the SQL string of a shape (a padded end also pads the front)
Render(q) ==
    (IF q.end = "pad" THEN <<" ">> ELSE <<>>)
        \o WithText[q.with] \o SelectText[q.select] \o FromText(q.from)
        \o JoinText(q.join) \o TailText[q.tail] \o EndText[q.end]

Shape(w, s, f, j, t, e) ==
    [with |-> w, select |-> s, from |-> f, join |-> j, tail |-> t, end |-> e]

JoinRefs == {"secret", "bar", "T_OK", "pb_t_ok", "dsb_t_ok"}

\* every WITH list with every pair of references
ShapesRefs ==
    {Shape(w, "x", f, j, "none", "none") :
        w \in DOMAIN WithText, f \in Refs,
        j \in {NoJoin} \cup ((DOMAIN Joiners) \X JoinRefs)}

\* every statement head with every tail and every end
ShapesStatement ==
    {Shape("none", s, f, NoJoin, t, e) :
        s \in DOMAIN SelectText \ {"empty"}, f \in {NoRef, "t_ok", "secret"},
        t \in DOMAIN TailText, e \in DOMAIN EndText}

\* statements that break several rules at once
ShapesMixed ==
    {Shape(w, s, f, j, t, e) :
        w \in {"none", "one"}, s \in {"x", "part", "literal"},
        f \in {"t_ok", "secret", "pb_t_ok", "hy_t_ok"},
        j \in {NoJoin, <<"comma", "secret">>, <<"join", "dsb_t_ok">>,
               <<"join", "pb_t_ok">>},
        t \in {"none", "where"}, e \in {"none", "semi2"}}

\* no statement at all
ShapesEmpty ==
    {Shape("none", "empty", NoRef, NoJoin, "none", e) : e \in DOMAIN EndText}

Shapes == ShapesRefs \cup ShapesStatement \cup ShapesMixed \cup ShapesEmpty

\* DbtArtifacts.allowed_models(): the one allow-listed mart
DbtModels ==
    [k \in {<<"t_ok">>} |->
        [name |-> <<"t_ok">>,
         fq_name |-> GCP_PROJECT_ID \o <<".">> \o BQ_DATASET_MART \o <<".", "t_ok">>]]

Config(pkg, engine, models, projects, datasets, limit) ==
    [pkg |-> pkg, engine |-> engine, allowed_models |-> models,
     allowed_projects |-> projects, allowed_datasets |-> datasets,
     enforce_limit |-> limit, partition_columns |-> <<"service_date_mst">>]

TestLimit == 123

Configs ==
    {Config("whyline", "duckdb", {<<"t_ok">>}, NoneSet, NoneSet, TestLimit),
     Config("whyline", "bigquery", {<<"t_ok">>}, NoneSet, NoneSet, SAFE_LIMIT),
     Config("whyline", "bigquery", {<<"t_ok">>}, {<<"proj_a">>}, {<<"ds">>}, SAFE_LIMIT),
     Config("whyline", "bigquery", {<<"proj_a", ".", "ds", ".", "t_ok">>}, NoneSet, NoneSet,
            SAFE_LIMIT),
     Config("whyline", "duckdb", {<<"t_ok">>}, {<<"proj_a">>}, NoneSet, SAFE_LIMIT),
     Config("whyline", "duckdb", {<<BT, "T_OK", BT>>}, NoneSet, NoneSet, TestLimit),
     Config("whyline", "bigquery", {<<"proj_a", ".", "ds", ".", "t_ok">>}, {<<"proj_b">>},
            NoneSet, SAFE_LIMIT),
     Config("whyline", "bigquery", {<<"proj_a", ".", "ds", ".", "t_ok">>}, {},
            {<<"ds_b">>}, SAFE_LIMIT),
     Config("whylinedenver", "duckdb", {<<"t_ok">>}, NoneSet, NoneSet, TestLimit),
     Config("whylinedenver", "bigquery", {<<"t_ok">>}, NoneSet, NoneSet, SAFE_LIMIT)}

----------------------------------------------------------------------------
(* Export state and the functions of MartExporter                          *)

\* the partition dates of the source table, and the timestamps of the clock
MaxDay == 3
TicksPerDay == 2
MaxClock == 4
MaxRuns == 2

Days == 1..MaxDay

\* Optional[date] and Optional[datetime]: None
NoDate == 0
NoTs == 0

\* datetime.date()
UtcDate(ts) == ts \div TicksPerDay

\* one partitioned and one snapshot mart of the allow-list
ALLOWLISTED_MARTS == <<"mart_reliability_by_route_day", "mart_access_score_by_stop">>

PARTITIONED_MARTS == {"mart_reliability_by_route_day", "mart_reliability_by_stop_hour"}

ExportState(mart_name, last_service_date, last_run_ts) ==
    [mart_name |-> mart_name, last_service_date |-> last_service_date,
     last_run_ts |-> last_run_ts]

\* no state: load returned None
NoState == ExportState("none", NoDate, NoTs)

\* a backend whose load raises NotFound
NotFound == ExportState("NotFound", NoDate, NoTs)

\* CompositeStateStore._safe_load(store, mart_name)
_safe_load(backend, mart_name) ==
    IF backend[mart_name] = NotFound THEN NoState ELSE backend[mart_name]

\* _is_newer taking the candidate on a tie
_is_newer_OrEqual(candidate, reference) == candidate.last_run_ts >= reference.last_run_ts

\* CompositeStateStore._is_newer: a missing timestamp is datetime.min
_is_newer(candidate, reference) == candidate.last_run_ts > reference.last_run_ts

\* CompositeStateStore._select_freshest(bq_state, gcs_state)
_select_freshest(bq_state, gcs_state) ==
    IF bq_state = NoState THEN gcs_state
    ELSE IF gcs_state = NoState THEN bq_state
    ELSE IF _is_newer(gcs_state, bq_state) THEN gcs_state
    ELSE bq_state

\* CompositeStateStore.load(mart_name)
load(st, mart_name) ==
    _select_freshest(_safe_load(st.bq, mart_name), _safe_load(st.gcs, mart_name))

\* CompositeStateStore.write(state): BigQuery first, then GCS; either
\* backend may raise
WriteOutcomes == {"ok", "bq_raises", "gcs_raises"}

write(st, state, outcome) ==
    IF outcome = "bq_raises" THEN st
    ELSE IF outcome = "gcs_raises"
    THEN [st EXCEPT !.bq[state.mart_name] = state]
    ELSE [st EXCEPT !.bq[state.mart_name] = state, !.gcs[state.mart_name] = state]

\* MartExporter._determine_cutoff(state, since)
_determine_cutoff_SinceFirst(state, since) ==
    IF since # NoDate THEN since
    ELSE IF state # NoState /\ state.last_service_date # NoDate
    THEN state.last_service_date + 1
    ELSE NoDate

_determine_cutoff(state, since) ==
    IF state # NoState /\ state.last_service_date # NoDate
       /\ (since = NoDate \/ state.last_service_date + 1 > since)
    THEN state.last_service_date + 1
    ELSE since

\* sorted(rows)
RECURSIVE Sorted(_)
Sorted(S) ==
    IF S = {} THEN <<>>
    ELSE LET least == CHOOSE d \in S : \A e \in S : d <= e
         IN  <<least>> \o Sorted(S \ {least})

\* _list_partitions_to_export without sorted(): the latest partition first
_list_partitions_to_export_Descending(rows, state, since) ==
    LET cutoff == _determine_cutoff(state, since)
        ascending == Sorted({d \in rows : cutoff = NoDate \/ d >= cutoff})
    IN  [i \in 1..Len(ascending) |-> ascending[Len(ascending) + 1 - i]]

\* MartExporter._list_partitions_to_export(mart_name, state, since) on a
\* table with the partition dates rows
_list_partitions_to_export(rows, state, since) ==
    LET cutoff == _determine_cutoff(state, since)
    IN  Sorted({d \in rows : cutoff = NoDate \/ d >= cutoff})

\* one BigQuery query of the exporter
Query(kind, mart_name, day, ok) ==
    [kind |-> kind, mart |-> mart_name, date |-> day, ok |-> ok]

ExportResult(mart_name, exported_partitions, last_run_ts) ==
    [mart_name |-> mart_name, exported_partitions |-> exported_partitions,
     last_run_ts |-> last_run_ts]

Marts == Range(ALLOWLISTED_MARTS)

\* no run has started
NoJob ==
    [pc |-> "idle", n |-> 0, since |-> NoDate, todo |-> <<>>, mart |-> "none",
     loaded |-> [m \in Marts |-> NoState], partitions |-> <<>>, next |-> 1,
     today |-> NoDate, queries |-> <<>>, written |-> <<>>, results |-> <<>>]

----------------------------------------------------------------------------
(* The DuckDB refresh: sync_state.json, parquet sources, statements        *)

MaxRefreshes == 2
MaxRunDate == 2

\* the run_date partitions an export may have written
RunDates == 1..MaxRunDate

\* int(os.getenv("DUCKDB_MAX_AGE_DAYS", "90")), in days of the model
DUCKDB_MAX_AGE_DAYS == 1

HOT_MARTS ==
    {"mart_reliability_by_route_day", "mart_reliability_by_stop_hour",
     "mart_weather_impacts"}

LATEST_RUN_DATE_ONLY_MARTS ==
    {"mart_access_score_by_stop", "mart_vulnerability_by_stop",
     "mart_priority_hotspots", "mart_crash_proximity_by_stop",
     "mart_weather_impacts"}

RefreshResult(mart_name, run_dates, materialized) ==
    [mart_name |-> mart_name, run_dates |-> run_dates, materialized |-> materialized]

\* the payload of sync_state.json; exists is FALSE for a missing file or
\* blob, which load_sync_state reports as None
SyncState(marts, duckdb_synced_at_utc, bigquery_updated_at_utc) ==
    [exists |-> TRUE, marts |-> marts,
     duckdb_synced_at_utc |-> duckdb_synced_at_utc,
     bigquery_updated_at_utc |-> bigquery_updated_at_utc]

NoSyncState ==
    [SyncState([m \in Marts |-> NoDate], NoTs, NoTs) EXCEPT !.exists = FALSE]

\* load_sync_state(path, prefer_gcs): the blob when a target is configured
\* and the download succeeds, the local file otherwise
load_sync_state(st, prefer_gcs, gcs_ok) ==
    IF prefer_gcs /\ st.target /\ gcs_ok /\ st.gcs.exists THEN st.gcs
    ELSE st.local

\* how an upload of the DuckDB file ends
UploadOutcomes == {"ok", "warned", "raised"}

\* _require_gcs_upload() for a value of SYNC_STATE_GCS_REQUIRED ("" when unset)
_require_gcs_upload(env) ==
    LowerSeq(Strip(env)) \in {<<"1">>, <<"true">>, <<"yes">>, <<"on">>}

\* write_sync_state that mirrors before it writes the local file
write_sync_state_MirrorFirst(st, payload, uploaded, env) ==
    LET raised == st.target /\ ~uploaded /\ _require_gcs_upload(env)
    IN  [files |-> IF raised THEN st
                   ELSE IF st.target /\ uploaded
                   THEN [st EXCEPT !.local = payload, !.gcs = payload]
                   ELSE [st EXCEPT !.local = payload],
         mirror |-> IF ~st.target THEN "none" ELSE IF uploaded THEN "ok" ELSE "failed",
         raised |-> raised]

\* write_sync_state(payload, path): the local file, then the mirror when a
\* target is configured; uploaded is whether the storage calls succeed
write_sync_state(st, payload, uploaded, env) ==
    LET saved == [st EXCEPT !.local = payload]
    IN  IF ~st.target
        THEN [files |-> saved, mirror |-> "none", raised |-> FALSE]
        ELSE IF uploaded
        THEN [files |-> [saved EXCEPT !.gcs = payload], mirror |-> "ok",
              raised |-> FALSE]
        ELSE [files |-> saved, mirror |-> "failed",
              raised |-> _require_gcs_upload(env)]

\* _prepare_sync_state(path): the files after the call, the state dict and
\* its bigquery_updated_at_utc
_prepare_sync_state(st, gcs_ok) ==
    LET remote_state == load_sync_state(st, TRUE, gcs_ok)
        files == IF remote_state.exists THEN [st EXCEPT !.local = remote_state] ELSE st
        local_state == load_sync_state(files, FALSE, gcs_ok)
        state == IF local_state.exists THEN local_state
                 ELSE IF remote_state.exists THEN remote_state
                 ELSE [NoSyncState EXCEPT !.exists = TRUE]
    IN  [files |-> files, state |-> state,
         bigquery_updated_at |-> state.bigquery_updated_at_utc]

\* _update_sync_state(state, bigquery_updated_at) at the time now
_update_sync_state(st, state, bigquery_updated_at, now, uploaded, env) ==
    LET stamped == [state EXCEPT !.duckdb_synced_at_utc = now]
        payload == IF bigquery_updated_at # NoTs
                   THEN [stamped EXCEPT !.bigquery_updated_at_utc = bigquery_updated_at]
                   ELSE stamped
    IN  write_sync_state(st, payload, uploaded, env)

\* _latest_run_date(run_dates): "" when there is none
_latest_run_date(run_dates) ==
    IF run_dates = <<>> THEN NoDate ELSE run_dates[Len(run_dates)]

\* _cache_gcs_parquet(client, bucket, mart_name, cache_root): the run dates,
\* the cache directory after the downloads, and whether the error is re-raised
_cache_gcs_parquet(pq, mart_name, listed) ==
    IF listed
    THEN [raised |-> FALSE, run_dates |-> Sorted(pq.src[mart_name]),
          cache |-> [pq.cache EXCEPT ![mart_name] = @ \cup pq.src[mart_name]]]
    ELSE [raised |-> pq.cache[mart_name] = {},
          run_dates |-> Sorted(pq.cache[mart_name]), cache |-> pq.cache]

\* _load_export_marker(client, bucket, mart_name)
_load_export_marker(st, mart_name, read) ==
    IF read /\ st.gcs[mart_name] # NoState
    THEN st.gcs[mart_name].last_service_date ELSE NoDate

\* the globs of a mart: one per run date, or run_date=* when there is none
Paths(run_dates) == [star |-> run_dates = <<>>, run_dates |-> Range(run_dates)]

\* _resolve_mart_sources(mart_name, local_parquet_root, cache_root, ...)
_resolve_mart_sources_AllRunDates(pq, st, mart_name, use_latest_only, today, listed, read) ==
    LET cached == _cache_gcs_parquet(pq, mart_name, listed)
        found == IF pq.local THEN Sorted(pq.src[mart_name]) ELSE cached.run_dates
    IN  [raised |-> ~pq.local /\ cached.raised,
         found |-> Range(found),
         run_dates |-> found,
         paths |-> Paths(found),
         marker_date |-> IF pq.local THEN NoDate
                         ELSE _load_export_marker(st, mart_name, read),
         cache |-> IF pq.local THEN pq.cache ELSE cached.cache]

_resolve_mart_sources(pq, st, mart_name, use_latest_only, today, listed, read) ==
    LET cached == _cache_gcs_parquet(pq, mart_name, listed)
        found == IF pq.local THEN Sorted(pq.src[mart_name]) ELSE cached.run_dates
        cutoff == today - DUCKDB_MAX_AGE_DAYS
        filtered == SelectSeq(found, LAMBDA rd : rd >= cutoff)
        trimmed == IF found # <<>> /\ DUCKDB_MAX_AGE_DAYS > 0 /\ ~use_latest_only
                      /\ filtered # <<>>
                   THEN filtered ELSE found
        run_dates == IF use_latest_only /\ trimmed # <<>>
                     THEN <<_latest_run_date(trimmed)>> ELSE trimmed
    IN  [raised |-> ~pq.local /\ cached.raised,
         found |-> Range(found),
         run_dates |-> run_dates,
         paths |-> Paths(run_dates),
         marker_date |-> IF pq.local THEN NoDate
                         ELSE _load_export_marker(st, mart_name, read),
         cache |-> IF pq.local THEN pq.cache ELSE cached.cache]

\* the partitions under the root that the globs of a statement match
Matched(paths, present) ==
    IF paths.star THEN present ELSE paths.run_dates \cap present

\* CREATE OR REPLACE TABLE|VIEW mart AS SELECT * FROM read_parquet(paths)
Statement(mart_name, materialize, paths) ==
    [mart |-> mart_name, kind |-> IF materialize THEN "table" ELSE "view",
     paths |-> paths]

NoRelation == [kind |-> "none", run_dates |-> {}]

\* con.execute(statement): DuckDB raises when a glob matches no file
Execute(db, statement, present) ==
    IF Matched(statement.paths, present) = {} THEN db
    ELSE [db EXCEPT !.relations[statement.mart] =
              [kind |-> statement.kind,
               run_dates |-> Matched(statement.paths, present)]]

\* no refresh has been called
NoRefresh ==
    [pc |-> "idle", n |-> 0, dry_run |-> FALSE, todo |-> <<>>,
     state |-> NoSyncState, bigquery_updated_at |-> NoTs,
     found |-> [m \in Marts |-> {}],
     results |-> <<>>, executed |-> <<>>, uploaded |-> FALSE,
     env |-> <<>>, mirror |-> "none",
     before |-> [syncState |-> [target |-> FALSE, local |-> NoSyncState,
                                gcs |-> NoSyncState],
                 relations |-> [m \in Marts |-> NoRelation]]]

\* values of SYNC_STATE_GCS_REQUIRED: unset, the four words, other cases
\* and padding, and words that do not ask for the upload
RequiredEnvs ==
    {<<>>, <<"1">>, <<"true">>, <<"yes">>, <<"on">>, <<"TRUE">>,
     <<" ", "on", " ">>, <<"0">>, <<"off">>, <<"YES", "\n">>}

\* the threads that call query_cache, and the calls each of them makes
MaxThreads == 2
MaxCacheCalls == 2
Threads == 1..MaxThreads

\* QueryCache(ttl_seconds), in ticks of the clock
ttl == 1

\* what get returned: the value, or None
Missed == [found |-> FALSE, value |-> 0]
Found(value) == [found |-> TRUE, value |-> value]

\* no thread is calling query_cache
NoCall ==
    [pc |-> "idle", n |-> 0, op |-> "none", key |-> <<>>, now |-> 0,
     expires_at |-> 0, value |-> 0, result |-> Missed]

CacheIdle ==
    /\ order = <<>>
    /\ threads = [th \in Threads |-> NoCall]
    /\ written = <<>>

\* the refresh is not part of the run
RefreshIdle ==
    /\ parquet = [local |-> TRUE, src |-> [m \in Marts |-> {}],
                  cache |-> [m \in Marts |-> {}]]
    /\ syncState = [target |-> FALSE, local |-> NoSyncState, gcs |-> NoSyncState]
    /\ warehouse = [relations |-> [m \in Marts |-> NoRelation], uploads |-> 0]
    /\ refreshJob = NoRefresh

\* the export job is not part of the run
SyncIdle ==
    /\ source = {}
    /\ clock = TicksPerDay
    /\ stateStore = [bq |-> [m \in Marts |-> NoState],
                     gcs |-> [m \in Marts |-> NoState]]
    /\ job = NoJob
    /\ RefreshIdle
    /\ CacheIdle

----------------------------------------------------------------------------
(* The pipeline as a state machine                                         *)

NoResult == [ok |-> FALSE, sql |-> <<>>, stage |-> "none", names |-> {}]

NoResponse ==
    [kind |-> "none", error |-> "none", names |-> {}, rows |-> 0, total_rows |-> 0,
     sql |-> <<>>, cache_hit |-> FALSE]

NoEntry == [sql |-> <<>>, src |-> "none"]

Engines == {"duckdb", "bigquery"}

\* no request is being served
NoRequest == [engine |-> "none", index |-> 0, mart |-> "none", dates |-> "none"]

\* the function with no argument: an empty dict
EmptyStore == [k \in {} |-> 0]

Init ==
    /\ shape \in Shapes
    /\ sqlIn = Render(shape)
    /\ cfg \in Configs
    /\ pc = "start"
    /\ res = NoResult
    /\ adapted = <<>>
    /\ handler = "none"
    /\ calls = <<>>
    /\ queryCache = EmptyStore
    /\ promptCache = [e \in Engines |-> NoEntry]
    /\ response = NoResponse
    /\ req = NoRequest
    /\ served = 0
    /\ SyncIdle

\* sanitized = sanitize_sql(sql, guardrail_config)
Sanitize ==
    /\ pc = "start"
    /\ res' \in sanitize_sql(sqlIn, cfg)
    /\ pc' = "sanitized"
    /\ UNCHANGED syncVars
    /\ UNCHANGED cacheVars
    /\ UNCHANGED <<shape, sqlIn, cfg, adapted, handler, calls, queryCache, promptCache,
                   response, req, served>>

\* sanitized = adapt_sql_for_engine(sanitized, engine, models)
Adapt ==
    /\ pc = "sanitized"
    /\ res.ok
    /\ adapted' = adapt_sql_for_engine(res.sql, cfg.engine, DbtModels, cfg.pkg)
    /\ pc' = "adapted"
    /\ UNCHANGED syncVars
    /\ UNCHANGED cacheVars
    /\ UNCHANGED <<shape, sqlIn, cfg, res, handler, calls, queryCache, promptCache,
                   response, req, served>>

Next == Sanitize \/ Adapt

Spec == Init /\ [][Next]_vars

----------------------------------------------------------------------------
(* The entry points that run the pipeline                                  *)

\* one call made by a handler: the function, where its SQL argument came
\* from, the argument, whether the call returned, and what it returned
Call(fn, src, arg, ok, out) ==
    [fn |-> fn, src |-> src, arg |-> arg, ok |-> ok, out |-> out]

_MAX_DISPLAY_ROWS == 10000

\* the sizes of the frames an engine returns
EngineRows == {0, 10001}

Min(a, b) == IF a <= b THEN a ELSE b

\* " ".join(sql.split())
RECURSIVE JoinWords(_)
JoinWords(s) ==
    IF s = <<>> THEN <<>>
    ELSE IF IsSpace(s[1])
    THEN (IF Len(s) > 1 /\ ~IsSpace(s[2]) THEN <<" ">> ELSE <<>>) \o JoinWords(Tail(s))
    ELSE <<s[1]>> \o JoinWords(Tail(s))

\* QueryCache._make_key (the digest stands for the normalized string)
QueryKey(engine, sql) == <<engine>> \o JoinWords(Strip(sql))

\* dict assignment store[key] = value
StoreSet(store, key, value) ==
    [k \in DOMAIN store \cup {key} |-> IF k = key THEN value ELSE store[k]]

\* del store[key]
StoreDel(store, key) == [k \in DOMAIN store \ {key} |-> store[k]]

\* CacheEntry(value, expires_at)
CacheEntry(value, expires_at) == [value |-> value, expires_at |-> expires_at]

\* QueryCache.get, the block under the lock: the store after it and the
\* value returned
get(store, key, now) ==
    IF key \notin DOMAIN store THEN [store |-> store, result |-> Missed]
    ELSE IF store[key].expires_at < now
    THEN [store |-> StoreDel(store, key), result |-> Missed]
    ELSE [store |-> store, result |-> Found(store[key].value)]

\* QueryCache._evict_expired at the time now
RECURSIVE _evict_expired(_, _, _)
_evict_expired(store, keys, now) ==
    IF keys = <<>> THEN [store |-> store, order |-> keys]
    ELSE IF Head(keys) \notin DOMAIN store \/ store[Head(keys)].expires_at < now
    THEN _evict_expired(StoreDel(store, Head(keys)), Tail(keys), now)
    ELSE [store |-> store, order |-> keys]

\* QueryCache.set, the block under the lock
set(store, keys, key, entry, now) ==
    _evict_expired(StoreSet(store, key, entry), Append(keys, key), now)

\* get_guardrail_config(engine) over the loaded models
get_guardrail_config(engine) ==
    LET allowlist == DOMAIN DbtModels
        parts(k) ==
            LET segs == SelectSeq(SplitDots(DbtModels[k].fq_name), NonEmpty)
            IN  [i \in 1..Len(segs) |-> StripTicks(segs[i])]
        fromModelsP == {parts(k)[Len(parts(k)) - 2] : k \in {m \in allowlist : Len(parts(m)) >= 3}}
        fromModelsD == {parts(k)[Len(parts(k)) - 1] : k \in {m \in allowlist : Len(parts(m)) >= 2}}
        allowed_projects == IF fromModelsP = {} THEN {GCP_PROJECT_ID} ELSE fromModelsP
        allowed_datasets == IF fromModelsD = {} THEN {BQ_DATASET_MART} ELSE fromModelsD
    IN  IF engine = "bigquery"
        THEN Config("whyline", engine, allowlist, allowed_projects, allowed_datasets,
                    SAFE_LIMIT)
        ELSE Config("whyline", engine, allowlist, NoneSet, NoneSet, SAFE_LIMIT)

\* GuardrailConfig(allowed_models=allowlist, engine=engine) of ask
AskConfig(engine) ==
    Config("whylinedenver", engine, DOMAIN DbtModels, NoneSet, NoneSet, SAFE_LIMIT)

\* the response built from a SqlValidationError: str(exc) in the error field
ErrorResponse(r) ==
    [kind |-> "error", error |-> r.stage, names |-> r.names, rows |-> 0,
     total_rows |-> 0, sql |-> <<>>, cache_hit |-> FALSE]

\* the response of the broad except clause of run_query
ExceptionResponse ==
    [kind |-> "error", error |-> "exception", names |-> {}, rows |-> 0,
     total_rows |-> 0, sql |-> <<>>, cache_hit |-> FALSE]

RowsResponse(total, sql, hit) ==
    [kind |-> "ok", error |-> "none", names |-> {}, rows |-> Min(total, _MAX_DISPLAY_ROWS),
     total_rows |-> total, sql |-> sql, cache_hit |-> hit]

SqlResponse(sql, hit) ==
    [kind |-> "ok", error |-> "none", names |-> {}, rows |-> 0, total_rows |-> 0,
     sql |-> sql, cache_hit |-> hit]

\* the part of run_query behind the validation: cache lookup, execution,
\* cache store, log and response, for the SQL a handed to the engine
RunAccepted(pre, a, c, cache, raises, n, expired, logged) ==
    LET key     == QueryKey(c.engine, a)
        present == key \in DOMAIN cache
        hit     == present /\ ~expired
        looked  == IF present /\ expired THEN StoreDel(cache, key) ELSE cache
        got     == Call("query_cache.get", "adapt_sql_for_engine", a, hit, <<>>)
        exec    == Call("execute", "adapt_sql_for_engine", a, ~raises, <<>>)
        put     == Call("query_cache.set", "adapt_sql_for_engine", a, TRUE, <<>>)
        log     == Call("log_query", "adapt_sql_for_engine", a, logged, <<>>)
        total   == IF hit THEN cache[key] ELSE n
    IN  IF hit
        THEN [adapted |-> a, calls |-> pre \o <<got, log>>, cache |-> looked,
              response |-> IF logged THEN RowsResponse(total, a, TRUE)
                           ELSE ExceptionResponse]
        ELSE IF raises
        THEN [adapted |-> a, calls |-> pre \o <<got, exec>>, cache |-> looked,
              response |-> ExceptionResponse]
        ELSE [adapted |-> a, calls |-> pre \o <<got, exec, put, log>>,
              cache |-> StoreSet(looked, key, n),
              response |-> IF logged THEN RowsResponse(total, a, FALSE)
                           ELSE ExceptionResponse]

\* run_query going on to the cache and the engine when the validation raises
run_query_Unchecked(sql, c, r, a, cache, raises, n, expired, logged) ==
    LET san == Call("sanitize_sql", "request", sql, r.ok, r.sql)
        ad  == Call("adapt_sql_for_engine", "sanitize_sql", r.sql, TRUE, a)
    IN  RunAccepted(<<san, ad>>, a, c, cache, raises, n, expired, logged)

\* run_query(req) for the outcome r of sanitize_sql and the string a that
\* adapt_sql_for_engine makes of r.sql; the engine raises or returns n rows,
\* the cache entry has expired or not, log_query returns or raises
run_query(sql, c, r, a, cache, raises, n, expired, logged) ==
    LET san == Call("sanitize_sql", "request", sql, r.ok, r.sql)
        ad  == Call("adapt_sql_for_engine", "sanitize_sql", r.sql, TRUE, a)
    IN  IF ~r.ok
        THEN [adapted |-> <<>>, calls |-> <<san>>, cache |-> cache,
              response |-> ErrorResponse(r)]
        ELSE RunAccepted(<<san, ad>>, a, c, cache, raises, n, expired, logged)

\* validate_sql(req), with r and a as in run_query; the dry-run estimate of
\* bigquery may raise
validate_sql(sql, c, r, a, estimated) ==
    LET san == Call("sanitize_sql", "request", sql, r.ok, r.sql)
        ad  == Call("adapt_sql_for_engine", "sanitize_sql", r.sql, TRUE, a)
        est == Call("estimate", "adapt_sql_for_engine", a, estimated, <<>>)
    IN  IF ~r.ok
        THEN [adapted |-> <<>>, calls |-> <<san>>, response |-> ErrorResponse(r)]
        ELSE [adapted |-> a,
              calls |-> <<san, ad>> \o (IF c.engine = "bigquery" THEN <<est>> ELSE <<>>),
              response |-> SqlResponse(a, FALSE)]

\* _add_filter_clauses(sql, filters) for a request whose FilterState is the
\* default one: no dates, routes, stop or weather, so nothing is injected
_add_filter_clauses(sql) == sql

\* the SQL generate_sql validates: the cached one on a hit, else the
\* candidate of the provider
GenerateInput(candidate, entry, expired) ==
    IF entry # NoEntry /\ ~expired
    THEN [sql |-> entry.sql, src |-> entry.src, hit |-> TRUE]
    ELSE [sql |-> _add_filter_clauses(candidate), src |-> "provider", hit |-> FALSE]

\* generate_sql(req) for the outcome r of sanitize_sql on GenerateInput and
\* the string a that adapt_sql_for_engine makes of r.sql; the provider
\* answers or raises
generate_sql(candidate, c, entry, expired, answered, r, a) ==
    LET in  == GenerateInput(candidate, entry, expired)
        san == Call("sanitize_sql", in.src, in.sql, r.ok, r.sql)
        ad  == Call("adapt_sql_for_engine", "sanitize_sql", r.sql, TRUE, a)
        looked == IF entry # NoEntry /\ expired THEN NoEntry ELSE entry
    IN  IF ~in.hit /\ ~answered
        THEN [adapted |-> <<>>, calls |-> <<>>, entry |-> looked,
              response |-> ExceptionResponse]
        ELSE IF ~r.ok
        THEN [adapted |-> <<>>, calls |-> <<san>>, entry |-> looked,
              response |-> ErrorResponse(r)]
        ELSE IF in.hit
        THEN [adapted |-> a, calls |-> <<san, ad>>, entry |-> looked,
              response |-> SqlResponse(a, TRUE)]
        ELSE [adapted |-> a, calls |-> <<san, ad>>,
              entry |-> [sql |-> a, src |-> "adapt_sql_for_engine"],
              response |-> SqlResponse(a, FALSE)]

\* ask(question, ...) of src/whylinedenver for the SQL of the stub provider
\* and the outcome r of sanitize_sql; a SqlValidationError leaves ask
ask(sql, c, a, r) ==
    LET ad  == Call("adapt_sql_for_engine", "provider", sql, TRUE, a)
        san == Call("sanitize_sql", "adapt_sql_for_engine", a, r.ok, r.sql)
    IN  [adapted |-> a, calls |-> <<ad, san>>,
         response |-> IF r.ok THEN SqlResponse(r.sql, FALSE)
                      ELSE [ErrorResponse(r) EXCEPT !.kind = "raised"]]

\* raise HTTPException(status_code=..., detail=...)
HttpError(status, detail, names) ==
    [kind |-> status, error |-> detail, names |-> names, rows |-> 0, total_rows |-> 0,
     sql |-> <<>>, cache_hit |-> FALSE]

\* an exception that leaves the handler: the framework answers HTTP 500
Unhandled == HttpError("unhandled", "exception", {})

NoShape == Shape("none", "empty", NoRef, NoJoin, "none", "none")

\* PREBUILT: a query on a mart with DATE_SUB on the partition column, and a
\* query with a LIMIT on a mart that the loaded models may lack
PREBUILT ==
    <<Shape("none", "part", "t_ok", NoJoin, "datesub", "none"),
      Shape("none", "x", "secret", NoJoin, "limit", "none")>>

\* the index of the path: 0-based, the last one out of range
PrebuiltIndexes == 0..Len(PREBUILT)

\* the engine_name of the path is any string
EngineNames == Engines \cup {"sqlite"}

\* prebuilt_sql_for_engine without the except clause: the error leaves it
prebuilt_sql_for_engine_Uncaught(index, engine_name, r, a) ==
    LET san == Call("sanitize_sql", "PREBUILT", Render(PREBUILT[index + 1]), r.ok, r.sql)
        ad  == Call("adapt_sql_for_engine", "sanitize_sql", r.sql, TRUE, a)
    IN  IF engine_name \notin Engines
        THEN [adapted |-> <<>>, calls |-> <<>>, response |-> HttpError("http400", "engine", {})]
        ELSE IF index < 0 \/ index >= Len(PREBUILT)
        THEN [adapted |-> <<>>, calls |-> <<>>, response |-> HttpError("http404", "index", {})]
        ELSE IF ~r.ok
        THEN [adapted |-> <<>>, calls |-> <<san>>, response |-> Unhandled]
        ELSE [adapted |-> a, calls |-> <<san, ad>>, response |-> SqlResponse(a, FALSE)]

\* prebuilt_sql_for_engine(index, engine_name), with r and a as in run_query
prebuilt_sql_for_engine(index, engine_name, r, a) ==
    LET san == Call("sanitize_sql", "PREBUILT", Render(PREBUILT[index + 1]), r.ok, r.sql)
        ad  == Call("adapt_sql_for_engine", "sanitize_sql", r.sql, TRUE, a)
    IN  IF engine_name \notin Engines
        THEN [adapted |-> <<>>, calls |-> <<>>, response |-> HttpError("http400", "engine", {})]
        ELSE IF index < 0 \/ index >= Len(PREBUILT)
        THEN [adapted |-> <<>>, calls |-> <<>>, response |-> HttpError("http404", "index", {})]
        ELSE IF ~r.ok
        THEN [adapted |-> <<>>, calls |-> <<san>>, response |-> ErrorResponse(r)]
        ELSE [adapted |-> a, calls |-> <<san, ad>>, response |-> SqlResponse(a, FALSE)]

\* ALLOWED_MARTS of downloads.py: the marts offered for download; the loaded
\* models hold the first one only
ALLOWED_MARTS == {"t_ok", "secret"}

\* the marts a request names, one of them not offered
DownloadMarts == ALLOWED_MARTS \cup {"foo"}

\* date_column, date_start and date_end of the request: absent, in order, or
\* with the start behind the end
DateFilters == {"none", "ok", "reversed"}

\* MartDownloadRequest.limit_rows: its lower bound
MIN_LIMIT_ROWS == 1000

\* the SQL download_mart builds
DownloadSql(rq) ==
    <<"SELECT", " ", "*", " ", "FROM", " ">> \o RefText[rq.mart]
        \o (IF rq.dates = "none" THEN <<>>
            ELSE <<" ", "WHERE", " ", "service_date_mst", " ", "BETWEEN", " ", "DATE", " ",
                   "'", "1", "'", " ", "AND", " ", "DATE", " ", "'", "2", "'">>)
        \o <<" ", "LIMIT", " ">> \o Decimal(MIN_LIMIT_ROWS)

\* download_mart(req), with r and a as in run_query: the cache is keyed by
\* the sanitized SQL, the engine runs the adapted SQL, log_query is called
\* outside every try block
download_mart(rq, c, r, a, cache, raises, n, expired, logged) ==
    LET key     == QueryKey(c.engine, r.sql)
        present == key \in DOMAIN cache
        hit     == present /\ ~expired
        looked  == IF present /\ expired THEN StoreDel(cache, key) ELSE cache
        san     == Call("sanitize_sql", "request", DownloadSql(rq), r.ok, r.sql)
        ad      == Call("adapt_sql_for_engine", "sanitize_sql", r.sql, TRUE, a)
        got     == Call("query_cache.get", "sanitize_sql", r.sql, hit, <<>>)
        exec    == Call("execute", "adapt_sql_for_engine", a, ~raises, <<>>)
        put     == Call("query_cache.set", "sanitize_sql", r.sql, TRUE, <<>>)
        log     == Call("log_query", "sanitize_sql", r.sql, logged, <<>>)
        total   == IF hit THEN cache[key] ELSE n
    IN  IF rq.mart \notin ALLOWED_MARTS
        THEN [adapted |-> <<>>, calls |-> <<>>, cache |-> cache,
              response |-> HttpError("http400", "mart", {})]
        ELSE IF rq.dates = "reversed"
        THEN [adapted |-> <<>>, calls |-> <<>>, cache |-> cache,
              response |-> HttpError("http400", "dates", {})]
        ELSE IF ~r.ok
        THEN [adapted |-> <<>>, calls |-> <<san>>, cache |-> cache,
              response |-> HttpError("http400", r.stage, r.names)]
        ELSE IF hit
        THEN [adapted |-> a, calls |-> <<san, ad, got, log>>, cache |-> looked,
              response |-> IF logged THEN RowsResponse(total, r.sql, TRUE) ELSE Unhandled]
        ELSE IF raises
        THEN [adapted |-> a, calls |-> <<san, ad, got, exec>>, cache |-> looked,
              response |-> HttpError("http500", "exception", {})]
        ELSE [adapted |-> a, calls |-> <<san, ad, got, exec, put, log>>,
              cache |-> StoreSet(looked, key, n),
              response |-> IF logged THEN RowsResponse(total, r.sql, FALSE) ELSE Unhandled]

\* the SQL a client sends or a provider answers: an accepted statement with
\* DATE_SUB, a comma join, an unknown table, a denylisted keyword
ApiShapes ==
    {Shape("none", "x", "t_ok", NoJoin, "datesub", "none"),
     Shape("none", "x", "t_ok", <<"comma", "secret">>, "none", "none"),
     Shape("none", "x", "secret", NoJoin, "none", "none"),
     Shape("none", "lower", "t_ok", NoJoin, "none", "none")}

\* the two answers of _stubbed_response: one with DATE_SUB on the partition
\* column, one with a LIMIT
StubShapes ==
    {Shape("none", "part", "t_ok", NoJoin, "datesub", "none"),
     Shape("none", "x", "t_ok", NoJoin, "limit", "none")}

\* the answers of the provider of generate_sql: an accepted statement with
\* DATE_SUB and one reading an unknown table
ProviderShapes ==
    {Shape("none", "x", "t_ok", NoJoin, "datesub", "none"),
     Shape("none", "x", "secret", NoJoin, "none", "none")}

\* the requests a run of the process serves
MaxRequests == 2

RestHandlers ==
    {"run_query", "validate_sql", "generate_sql", "prebuilt_sql_for_engine", "download_mart"}

Handlers == RestHandlers \cup {"ask"}

\* the SQL that comes in with a request; prebuilt_sql_for_engine and
\* download_mart build theirs
RequestShapes(h) ==
    IF h = "ask" THEN StubShapes
    ELSE IF h = "generate_sql" THEN ProviderShapes
    ELSE IF h \in {"run_query", "validate_sql"} THEN ApiShapes
    ELSE {NoShape}

Request(e, i, m, d) == [engine |-> e, index |-> i, mart |-> m, dates |-> d]

\* the other fields of a request
Requests(h) ==
    IF h = "prebuilt_sql_for_engine"
    THEN {Request(e, i, "none", "none") : e \in EngineNames, i \in PrebuiltIndexes}
    ELSE IF h = "download_mart"
    THEN {Request(e, 0, m, d) : e \in Engines, m \in DownloadMarts, d \in DateFilters}
    ELSE {Request(e, 0, "none", "none") : e \in Engines}

InitApi ==
    /\ shape = NoShape
    /\ sqlIn = <<>>
    /\ cfg = get_guardrail_config("duckdb")
    /\ pc = "idle"
    /\ res = NoResult
    /\ adapted = <<>>
    /\ handler = "none"
    /\ calls = <<>>
    /\ queryCache = EmptyStore
    /\ promptCache = [e \in Engines |-> NoEntry]
    /\ response = NoResponse
    /\ req = NoRequest
    /\ served = 0
    /\ SyncIdle

\* a request reaches one of the entry points; sqlIn is the SQL it brings in:
\* req.sql for run_query and validate_sql, the answer the provider would give
\* for generate_sql and ask
Receive ==
    /\ pc = "idle"
    /\ served < MaxRequests
    /\ served' = served + 1
    /\ \E h \in Handlers :
           \E rq \in Requests(h), q \in RequestShapes(h) :
               /\ handler' = h
               /\ req' = rq
               /\ shape' = q
               /\ sqlIn' = Render(q)
               /\ cfg' = IF h = "ask" THEN AskConfig(rq.engine)
                         ELSE get_guardrail_config(rq.engine)
    /\ pc' = "received"
    /\ UNCHANGED syncVars
    /\ UNCHANGED cacheVars
    /\ UNCHANGED <<res, adapted, calls, response, queryCache, promptCache>>

\* POST /api/query/run
RunQuery ==
    /\ pc = "received"
    /\ handler = "run_query"
    /\ \E r \in sanitize_sql(sqlIn, cfg), raises \in BOOLEAN, n \in EngineRows,
          expired \in BOOLEAN, logged \in BOOLEAN :
           \E a \in {adapt_sql_for_engine(r.sql, cfg.engine, DbtModels, cfg.pkg)} :
               \E o \in {run_query(sqlIn, cfg, r, a, queryCache, raises, n, expired,
                                   logged)} :
                   /\ res' = r
                   /\ adapted' = o.adapted
                   /\ calls' = o.calls
                   /\ queryCache' = o.cache
                   /\ response' = o.response
    /\ pc' = "responded"
    /\ UNCHANGED syncVars
    /\ UNCHANGED cacheVars
    /\ UNCHANGED <<shape, sqlIn, cfg, handler, promptCache, req, served>>

\* POST /api/sql/validate
ValidateSql ==
    /\ pc = "received"
    /\ handler = "validate_sql"
    /\ \E r \in sanitize_sql(sqlIn, cfg), estimated \in BOOLEAN :
           \E a \in {adapt_sql_for_engine(r.sql, cfg.engine, DbtModels, cfg.pkg)} :
               \E o \in {validate_sql(sqlIn, cfg, r, a, estimated)} :
                   /\ res' = r
                   /\ adapted' = o.adapted
                   /\ calls' = o.calls
                   /\ response' = o.response
    /\ pc' = "responded"
    /\ UNCHANGED syncVars
    /\ UNCHANGED cacheVars
    /\ UNCHANGED <<shape, sqlIn, cfg, handler, queryCache, promptCache, req, served>>

\* POST /api/sql/generate
GenerateSql ==
    /\ pc = "received"
    /\ handler = "generate_sql"
    /\ \E expired \in BOOLEAN, answered \in BOOLEAN :
           \E r \in sanitize_sql(GenerateInput(sqlIn, promptCache[cfg.engine],
                                                expired).sql, cfg) :
               \E a \in {adapt_sql_for_engine(r.sql, cfg.engine, DbtModels, cfg.pkg)} :
                   \E o \in {generate_sql(sqlIn, cfg, promptCache[cfg.engine], expired,
                                          answered, r, a)} :
                       /\ res' = IF o.calls = <<>> THEN NoResult ELSE r
                       /\ adapted' = o.adapted
                       /\ calls' = o.calls
                       /\ promptCache' = [promptCache EXCEPT ![cfg.engine] = o.entry]
                       /\ response' = o.response
    /\ pc' = "responded"
    /\ UNCHANGED syncVars
    /\ UNCHANGED cacheVars
    /\ UNCHANGED <<shape, sqlIn, cfg, handler, queryCache, req, served>>

\* whylinedenver.llm.ask
Ask ==
    /\ pc = "received"
    /\ handler = "ask"
    /\ \E a \in {adapt_sql_for_engine(sqlIn, cfg.engine, DbtModels, cfg.pkg)} :
           \E r \in sanitize_sql(a, cfg) :
               \E o \in {ask(sqlIn, cfg, a, r)} :
                   /\ res' = r
                   /\ adapted' = o.adapted
                   /\ calls' = o.calls
                   /\ response' = o.response
    /\ pc' = "responded"
    /\ UNCHANGED syncVars
    /\ UNCHANGED cacheVars
    /\ UNCHANGED <<shape, sqlIn, cfg, handler, queryCache, promptCache, req, served>>

\* POST /api/sql/prebuilt/{index}/for/{engine_name}
PrebuiltSqlForEngine ==
    /\ pc = "received"
    /\ handler = "prebuilt_sql_for_engine"
    /\ \E q \in {IF req.index < Len(PREBUILT) /\ req.engine \in Engines
                  THEN PREBUILT[req.index + 1] ELSE NoShape} :
           \E r \in sanitize_sql(Render(q), cfg) :
               \E a \in {adapt_sql_for_engine(r.sql, cfg.engine, DbtModels, cfg.pkg)} :
                   \E o \in {prebuilt_sql_for_engine(req.index, req.engine, r, a)} :
                       /\ shape' = q
                       /\ sqlIn' = Render(q)
                       /\ res' = IF o.calls = <<>> THEN NoResult ELSE r
                       /\ adapted' = o.adapted
                       /\ calls' = o.calls
                       /\ response' = o.response
    /\ pc' = "responded"
    /\ UNCHANGED syncVars
    /\ UNCHANGED cacheVars
    /\ UNCHANGED <<cfg, handler, queryCache, promptCache, req, served>>

\* POST /api/downloads/mart
DownloadMart ==
    /\ pc = "received"
    /\ handler = "download_mart"
    /\ \E raises \in BOOLEAN, n \in EngineRows, expired \in BOOLEAN, logged \in BOOLEAN :
           \E sql \in {DownloadSql(req)} :
               \E r \in sanitize_sql(sql, cfg) :
                   \E a \in {adapt_sql_for_engine(r.sql, cfg.engine, DbtModels, cfg.pkg)} :
                       \E o \in {download_mart(req, cfg, r, a, queryCache, raises, n,
                                               expired, logged)} :
                           /\ shape' = Shape("none", "star", req.mart, NoJoin, req.dates,
                                             "none")
                           /\ sqlIn' = IF o.calls = <<>> THEN <<>> ELSE sql
                           /\ res' = IF o.calls = <<>> THEN NoResult ELSE r
                           /\ adapted' = o.adapted
                           /\ calls' = o.calls
                           /\ queryCache' = o.cache
                           /\ response' = o.response
    /\ pc' = "responded"
    /\ UNCHANGED syncVars
    /\ UNCHANGED cacheVars
    /\ UNCHANGED <<cfg, handler, promptCache, req, served>>

\* the response has gone out: the locals of the handler are dropped, the
\* two module-level caches stay
Return ==
    /\ pc = "responded"
    /\ pc' = "idle"
    /\ shape' = NoShape
    /\ sqlIn' = <<>>
    /\ cfg' = get_guardrail_config("duckdb")
    /\ res' = NoResult
    /\ adapted' = <<>>
    /\ handler' = "none"
    /\ calls' = <<>>
    /\ response' = NoResponse
    /\ req' = NoRequest
    /\ UNCHANGED syncVars
    /\ UNCHANGED cacheVars
    /\ UNCHANGED <<queryCache, promptCache, served>>

NextApi ==
    \/ Receive
    \/ RunQuery
    \/ ValidateSql
    \/ GenerateSql
    \/ PrebuiltSqlForEngine
    \/ DownloadMart
    \/ Ask
    \/ Return

SpecApi == InitApi /\ [][NextApi]_vars

----------------------------------------------------------------------------
(* adapt_sql_for_engine called on its own, as the tests of llm.py do       *)

\* the text of one DATE_SUB call: function name and unit in either letter
\* case, a DAY or a MONTH interval, written tight or with blanks and a line
\* break around its arguments
DateSubText(c, expr) ==
    LET sp == IF c.loose THEN <<" ">> ELSE <<>>
        nl == IF c.loose THEN <<"\n">> ELSE <<>>
    IN  <<c.fn, "(">> \o sp \o expr \o sp \o <<",">> \o nl
            \o <<(IF c.unit = "day" THEN "interval" ELSE "INTERVAL"), " ">> \o sp
            \o c.days \o <<" ", c.unit>> \o sp \o <<")">>

\* the first argument of a DATE_SUB call: a column, a function call with a
\* comma in it, or another DATE_SUB call
DateSubExpr ==
    [x      |-> <<"x">>,
     call   |-> <<"coalesce", "(", "x", ",", " ", "z", ")">>,
     nested |-> <<"DATE_SUB", "(", "z", ",", " ", "INTERVAL", " ", "1", " ", "DAY", ")">>]

\* the statements adapt_sql_for_engine is called on: every statement of the
\* pipeline, and a statement with one or two DATE_SUB calls in its WHERE
AdaptShapes ==
    LET first == [fn : {"DATE_SUB", "date_sub"}, expr : DOMAIN DateSubExpr,
                  days : {<<"3", "0">>}, unit : {"DAY", "day", "MONTH"},
                  loose : BOOLEAN]
        second == [fn : {"DATE_SUB"}, expr : {"x"}, days : {<<"7">>},
                   unit : {"DAY", "MONTH"}, loose : {FALSE}]
        seqs == {<<>>} \cup {<<a>> : a \in first} \cup (first \X second)
    IN  {[with |-> q.with, select |-> q.select, from |-> q.from, join |-> q.join,
          tail |-> q.tail, end |-> q.end, dates |-> d] :
            q \in Shapes, d \in {<<>>}}
        \cup {[with |-> "none", select |-> "x", from |-> "t_ok", join |-> NoJoin,
               tail |-> "where", end |-> "none", dates |-> d] : d \in seqs \ {<<>>}}

\* the SQL string of such a statement
RECURSIVE RenderDates(_, _)
RenderDates(d, i) ==
    IF i > Len(d) THEN <<>>
    ELSE <<" ", "AND", " ", "z", " ", "=", " ">>
             \o DateSubText(d[i], DateSubExpr[d[i].expr]) \o RenderDates(d, i + 1)

InitAdapt ==
    /\ shape \in AdaptShapes
    /\ sqlIn = Render(shape) \o RenderDates(shape.dates, 1)
    /\ cfg \in [pkg : {"whyline", "whylinedenver"}, engine : Engines,
                models : {DbtModels, <<>>}]
    /\ pc = "start"
    /\ res = NoResult
    /\ adapted = <<>>
    /\ handler = "none"
    /\ calls = <<>>
    /\ queryCache = EmptyStore
    /\ promptCache = [e \in Engines |-> NoEntry]
    /\ response = NoResponse
    /\ req = NoRequest
    /\ served = 0
    /\ SyncIdle

\* adapt_sql_for_engine(sql, engine, models)
AdaptSql ==
    /\ pc = "start"
    /\ adapted' = adapt_sql_for_engine(sqlIn, cfg.engine, cfg.models, cfg.pkg)
    /\ pc' = "adapted"
    /\ UNCHANGED syncVars
    /\ UNCHANGED cacheVars
    /\ UNCHANGED <<shape, sqlIn, cfg, res, handler, calls, queryCache, promptCache,
                   response, req, served>>

\* adapt_sql_for_engine called again, on what it returned
AdaptAgain ==
    /\ pc = "adapted"
    /\ sqlIn' = adapted
    /\ adapted' = adapt_sql_for_engine(adapted, cfg.engine, cfg.models, cfg.pkg)
    /\ pc' = "readapted"
    /\ UNCHANGED syncVars
    /\ UNCHANGED cacheVars
    /\ UNCHANGED <<shape, cfg, res, handler, calls, queryCache, promptCache,
                   response, req, served>>

NextAdapt == AdaptSql \/ AdaptAgain

SpecAdapt == InitAdapt /\ [][NextAdapt]_vars

----------------------------------------------------------------------------
(* Returned SQL submitted again                                            *)

\* a statement of the pipeline or one with DATE_SUB calls, under a
\* configuration of the tests or of the API
InitResubmit ==
    /\ shape \in AdaptShapes
    /\ sqlIn = Render(shape) \o RenderDates(shape.dates, 1)
    /\ cfg \in Configs \cup {get_guardrail_config(e) : e \in Engines}
    /\ pc = "start"
    /\ res = NoResult
    /\ adapted = <<>>
    /\ handler = "none"
    /\ calls = <<>>
    /\ queryCache = EmptyStore
    /\ promptCache = [e \in Engines |-> NoEntry]
    /\ response = NoResponse
    /\ req = NoRequest
    /\ served = 0
    /\ SyncIdle

\* the SQL a handler returned is submitted again under the same
\* configuration: sanitize_sql, then adapt_sql_for_engine when it is accepted
Resubmit ==
    /\ pc = "adapted"
    /\ sqlIn' = adapted
    /\ \E again \in sanitize_sql(adapted, cfg) :
           /\ res' = again
           /\ adapted' = IF again.ok
                         THEN adapt_sql_for_engine(again.sql, cfg.engine, DbtModels, cfg.pkg)
                         ELSE <<>>
    /\ pc' = "resubmitted"
    /\ UNCHANGED syncVars
    /\ UNCHANGED cacheVars
    /\ UNCHANGED <<shape, cfg, handler, calls, queryCache, promptCache,
                   response, req, served>>

NextResubmit == Sanitize \/ Adapt \/ Resubmit

SpecResubmit == InitResubmit /\ [][NextResubmit]_vars

----------------------------------------------------------------------------
(* MartExporter.run                                                        *)

\* the marts argument of run: None, or a list of names
MartArgs ==
    [given : {FALSE}, names : {<<>>}]
        \cup [given : {TRUE},
              names : {<<ALLOWLISTED_MARTS[1]>>, <<ALLOWLISTED_MARTS[2]>>,
                       <<ALLOWLISTED_MARTS[2], ALLOWLISTED_MARTS[1]>>,
                       <<ALLOWLISTED_MARTS[1], ALLOWLISTED_MARTS[1]>>, <<"foo">>}]

\* the list without the later copies of a name
RECURSIVE Deduplicated(_, _)
Deduplicated(names, seen) ==
    IF names = <<>> THEN <<>>
    ELSE IF Head(names) \in seen THEN Deduplicated(Tail(names), seen)
    ELSE <<Head(names)>> \o Deduplicated(Tail(names), seen \cup {Head(names)})

\* MartExporter._validate_marts(marts); <<"ValueError">> when it raises
_validate_marts(marts) ==
    IF ~marts.given THEN ALLOWLISTED_MARTS
    ELSE IF Range(marts.names) \ Marts # {} THEN <<"ValueError">>
    ELSE Deduplicated(marts.names, {})

InitExport ==
    /\ shape = NoShape
    /\ sqlIn = <<>>
    /\ cfg = get_guardrail_config("duckdb")
    /\ pc = "idle"
    /\ res = NoResult
    /\ adapted = <<>>
    /\ handler = "none"
    /\ calls = <<>>
    /\ queryCache = EmptyStore
    /\ promptCache = [e \in Engines |-> NoEntry]
    /\ response = NoResponse
    /\ req = NoRequest
    /\ served = 0
    /\ source \in SUBSET Days
    /\ clock = TicksPerDay
    /\ stateStore = [bq |-> [m \in Marts |-> NoState],
                     gcs |-> [m \in Marts |-> NoState]]
    /\ job = NoJob
    /\ RefreshIdle
    /\ CacheIdle

\* time passes
Tick ==
    /\ clock < MaxClock
    /\ clock' = clock + 1
    /\ UNCHANGED <<source, stateStore, job>>
    /\ UNCHANGED pipeVars
    /\ UNCHANGED cacheVars
    /\ UNCHANGED refreshVars

\* run(since=..., marts=...) is called: the marts are validated
Run ==
    /\ job.pc \in {"idle", "returned", "raised"}
    /\ job.n < MaxRuns
    /\ \E since \in {NoDate} \cup Days, marts \in MartArgs :
           \E marts_to_process \in {_validate_marts(marts)} :
               job' = [NoJob EXCEPT
                          !.n = job.n + 1,
                          !.since = since,
                          !.pc = IF marts_to_process = <<"ValueError">>
                                 THEN "raised" ELSE "loop",
                          !.todo = IF marts_to_process = <<"ValueError">>
                                   THEN <<>> ELSE marts_to_process]
    /\ UNCHANGED <<source, clock, stateStore>>
    /\ UNCHANGED pipeVars
    /\ UNCHANGED cacheVars
    /\ UNCHANGED refreshVars

\* _export_partitioned_mart up to its loop: load the state, list the
\* partitions, return None when there is none
ExportPartitionedMart ==
    /\ job.pc = "loop"
    /\ job.todo # <<>>
    /\ Head(job.todo) \in PARTITIONED_MARTS
    /\ \E mart_name \in {Head(job.todo)} :
       \E state \in {load(stateStore, mart_name)} :
       \E partitions \in {_list_partitions_to_export(source, state, job.since)} :
           job' = [job EXCEPT
                      !.mart = mart_name,
                      !.loaded[mart_name] = state,
                      !.partitions = partitions,
                      !.next = 1,
                      !.queries = Append(@, Query("list", mart_name, NoDate, TRUE)),
                      !.pc = IF partitions = <<>> THEN "loop" ELSE "partitions",
                      !.todo = IF partitions = <<>> THEN Tail(@) ELSE @]
    /\ UNCHANGED <<source, clock, stateStore>>
    /\ UNCHANGED pipeVars
    /\ UNCHANGED cacheVars
    /\ UNCHANGED refreshVars

\* one round of the loop of _export_partitioned_mart: the export job of the
\* partition, which writes gs://<bucket>/marts/<mart>/run_date=<date>/, then
\* _persist_state; the job or the write may raise
ExportPartition ==
    /\ job.pc = "partitions"
    /\ job.next <= Len(job.partitions)
    /\ \E exported \in BOOLEAN, outcome \in WriteOutcomes :
       \E partition_date \in {job.partitions[job.next]} :
       \E state \in {ExportState(job.mart, partition_date, clock)} :
           /\ job' = [job EXCEPT
                         !.queries = Append(@, Query("export", job.mart, partition_date,
                                                     exported)),
                         !.written = IF exported /\ outcome = "ok"
                                     THEN Append(@, state) ELSE @,
                         !.next = IF exported /\ outcome = "ok" THEN @ + 1 ELSE @,
                         !.pc = IF exported /\ outcome = "ok" THEN @ ELSE "raised"]
           /\ stateStore' = IF exported THEN write(stateStore, state, outcome)
                          ELSE stateStore
           /\ parquet' = IF exported
                         THEN [parquet EXCEPT !.src[job.mart] = @ \cup {partition_date}]
                         ELSE parquet
    /\ UNCHANGED <<source, clock>>
    /\ UNCHANGED pipeVars
    /\ UNCHANGED cacheVars
    /\ UNCHANGED <<syncState, warehouse, refreshJob>>

\* the end of _export_partitioned_mart: the final _persist_state and the
\* ExportResult
FinishPartitionedMart ==
    /\ job.pc = "partitions"
    /\ job.next > Len(job.partitions)
    /\ \E outcome \in WriteOutcomes :
       \E final_state \in {ExportState(job.mart, job.partitions[Len(job.partitions)],
                                       clock)} :
           /\ job' = IF outcome # "ok" THEN [job EXCEPT !.pc = "raised"]
                     ELSE [job EXCEPT
                              !.written = Append(@, final_state),
                              !.results = Append(@, ExportResult(job.mart, job.partitions,
                                                                 final_state.last_run_ts)),
                              !.todo = Tail(@),
                              !.pc = "loop"]
           /\ stateStore' = write(stateStore, final_state, outcome)
    /\ UNCHANGED <<source, clock>>
    /\ UNCHANGED pipeVars
    /\ UNCHANGED cacheVars
    /\ UNCHANGED refreshVars

\* the test of _export_snapshot_mart read on last_service_date
ExportedToday_ServiceDate(state, today) ==
    state # NoState /\ state.last_service_date # NoDate /\ state.last_service_date >= today

\* the test of _export_snapshot_mart: the state was written today
ExportedToday(state, today) ==
    state # NoState /\ state.last_run_ts # NoTs /\ UtcDate(state.last_run_ts) >= today

\* _export_snapshot_mart: nothing when the state was written today, else
\* the export job, _persist_state and the ExportResult; time may pass
\* between the two calls of _now
ExportSnapshotMart ==
    /\ job.pc = "loop"
    /\ job.todo # <<>>
    /\ Head(job.todo) \notin PARTITIONED_MARTS
    /\ \E exported \in BOOLEAN, outcome \in WriteOutcomes,
          later \in {t \in {clock, clock + 1} : t <= MaxClock} :
       \E mart_name \in {Head(job.todo)}, today \in {UtcDate(clock)} :
       \E state \in {load(stateStore, mart_name)} :
       \E final_state \in {ExportState(mart_name, today, later)} :
           IF ExportedToday(state, today)
           THEN /\ job' = [job EXCEPT !.mart = mart_name, !.loaded[mart_name] = state,
                                      !.today = today, !.todo = Tail(@)]
                /\ UNCHANGED <<clock, stateStore, parquet>>
           ELSE /\ job' = [job EXCEPT
                              !.mart = mart_name,
                              !.loaded[mart_name] = state,
                              !.today = today,
                              !.queries = Append(@, Query("export", mart_name, today,
                                                          exported)),
                              !.written = IF exported /\ outcome = "ok"
                                          THEN Append(@, final_state) ELSE @,
                              !.results = IF exported /\ outcome = "ok"
                                          THEN Append(@, ExportResult(
                                                   mart_name, <<today>>,
                                                   final_state.last_run_ts))
                                          ELSE @,
                              !.todo = IF exported /\ outcome = "ok" THEN Tail(@) ELSE @,
                              !.pc = IF exported /\ outcome = "ok" THEN @ ELSE "raised"]
                /\ clock' = IF exported THEN later ELSE clock
                /\ stateStore' = IF exported
                                 THEN write(stateStore, final_state, outcome)
                                 ELSE stateStore
                /\ parquet' = IF exported
                              THEN [parquet EXCEPT !.src[mart_name] = @ \cup {today}]
                              ELSE parquet
    /\ UNCHANGED source
    /\ UNCHANGED pipeVars
    /\ UNCHANGED cacheVars
    /\ UNCHANGED <<syncState, warehouse, refreshJob>>

\* run returns its results
RunReturns ==
    /\ job.pc = "loop"
    /\ job.todo = <<>>
    /\ job' = [job EXCEPT !.pc = "returned"]
    /\ UNCHANGED <<source, clock, stateStore>>
    /\ UNCHANGED pipeVars
    /\ UNCHANGED cacheVars
    /\ UNCHANGED refreshVars

NextExport ==
    \/ Tick
    \/ Run
    \/ ExportPartitionedMart
    \/ ExportPartition
    \/ FinishPartitionedMart
    \/ ExportSnapshotMart
    \/ RunReturns

SpecExport == InitExport /\ [][NextExport]_vars

----------------------------------------------------------------------------
(* The DuckDB refresh as a state machine                                   *)

\* the sync states a deployment may hold before a refresh
SyncStatesBefore ==
    {NoSyncState,
     SyncState([m \in Marts |-> NoDate], 1, NoTs),
     SyncState([m \in Marts |-> 1], 1, 1)}

InitRefresh ==
    /\ shape = NoShape
    /\ sqlIn = <<>>
    /\ cfg = get_guardrail_config("duckdb")
    /\ pc = "idle"
    /\ res = NoResult
    /\ adapted = <<>>
    /\ handler = "none"
    /\ calls = <<>>
    /\ queryCache = EmptyStore
    /\ promptCache = [e \in Engines |-> NoEntry]
    /\ response = NoResponse
    /\ req = NoRequest
    /\ served = 0
    /\ source = {}
    /\ clock = TicksPerDay
    /\ \E marker \in BOOLEAN :
           stateStore = [bq |-> [m \in Marts |-> NoState],
                         gcs |-> [m \in Marts |->
                                     IF marker THEN ExportState(m, 1, 1) ELSE NoState]]
    /\ job = NoJob
    /\ \E local \in BOOLEAN :
           parquet = [local |-> local, src |-> [m \in Marts |-> {}],
                      cache |-> [m \in Marts |-> {}]]
    /\ \E target \in BOOLEAN, file \in SyncStatesBefore, blob \in SyncStatesBefore :
           /\ ~target => blob = NoSyncState
           /\ syncState = [target |-> target, local |-> file, gcs |-> blob]
    /\ warehouse = [relations |-> [m \in Marts |-> NoRelation], uploads |-> 0]
    /\ refreshJob = NoRefresh
    /\ CacheIdle

\* between two refreshes the exporter writes a run_date partition of a mart
\* to the parquet source
PartitionLands ==
    /\ refreshJob.pc \in {"idle", "returned", "raised"}
    /\ \E m \in Marts, rd \in RunDates :
           /\ rd \notin parquet.src[m]
           /\ parquet' = [parquet EXCEPT !.src[m] = @ \cup {rd}]
    /\ UNCHANGED <<syncState, warehouse, refreshJob>>
    /\ UNCHANGED <<source, clock, stateStore, job>>
    /\ UNCHANGED pipeVars
    /\ UNCHANGED cacheVars

\* refresh(...) up to the loop over the marts: the connection, the sync
\* state, the storage client (strict: its failure is raised)
RefreshStart ==
    /\ refreshJob.pc \in {"idle", "returned", "raised"}
    /\ refreshJob.n < MaxRefreshes
    /\ \E dry_run \in BOOLEAN, gcs_ok \in BOOLEAN, client_ok \in BOOLEAN :
       \E prepared \in {_prepare_sync_state(syncState, gcs_ok)} :
           /\ syncState' = prepared.files
           /\ refreshJob' =
                  [NoRefresh EXCEPT
                      !.n = refreshJob.n + 1,
                      !.dry_run = dry_run,
                      !.pc = IF ~parquet.local /\ ~client_ok THEN "raised" ELSE "marts",
                      !.todo = ALLOWLISTED_MARTS,
                      !.state = prepared.state,
                      !.bigquery_updated_at = prepared.bigquery_updated_at,
                      !.before = [syncState |-> syncState,
                                  relations |-> warehouse.relations]]
    /\ UNCHANGED <<parquet, warehouse>>
    /\ UNCHANGED <<source, clock, stateStore, job>>
    /\ UNCHANGED pipeVars
    /\ UNCHANGED cacheVars

\* one round of the loop of _refresh_all_marts: _resolve_mart_sources,
\* _refresh_mart and, unless dry_run, the entry of marts_state
RefreshMart ==
    /\ refreshJob.pc = "marts"
    /\ refreshJob.todo # <<>>
    /\ \E today \in Days, listed \in BOOLEAN, read \in BOOLEAN :
       \E mart_name \in {Head(refreshJob.todo)} :
       \E sources \in {_resolve_mart_sources(parquet, stateStore, mart_name,
                                             mart_name \in LATEST_RUN_DATE_ONLY_MARTS,
                                             today, listed, read)} :
       \E present \in {IF parquet.local THEN parquet.src[mart_name]
                       ELSE sources.cache[mart_name]} :
       \E statement \in {Statement(mart_name, mart_name \in HOT_MARTS, sources.paths)} :
       \E latest \in {IF sources.run_dates = <<>> /\ ~parquet.local
                      THEN sources.marker_date
                      ELSE _latest_run_date(sources.run_dates)} :
           /\ parquet' = [parquet EXCEPT !.cache = sources.cache]
           /\ warehouse' =
                  IF sources.raised \/ refreshJob.dry_run THEN warehouse
                  ELSE Execute(warehouse, statement, present)
           /\ refreshJob' =
                  IF sources.raised
                  THEN [refreshJob EXCEPT !.pc = "raised"]
                  ELSE IF ~refreshJob.dry_run /\ Matched(statement.paths, present) = {}
                  THEN [refreshJob EXCEPT
                           !.pc = "raised",
                           !.executed = Append(@, statement)]
                  ELSE [refreshJob EXCEPT
                           !.todo = Tail(@),
                           !.found[mart_name] = sources.found,
                           !.pc = IF Tail(refreshJob.todo) = <<>> THEN "finish" ELSE "marts",
                           !.results = Append(@, RefreshResult(mart_name, sources.run_dates,
                                                               mart_name \in HOT_MARTS)),
                           !.executed = IF refreshJob.dry_run THEN @
                                        ELSE Append(@, statement),
                           !.state.marts[mart_name] =
                               IF refreshJob.dry_run \/ latest = NoDate THEN @ ELSE latest]
    /\ UNCHANGED syncState
    /\ UNCHANGED <<source, clock, stateStore, job>>
    /\ UNCHANGED pipeVars
    /\ UNCHANGED cacheVars

\* refresh(...) after the loop: _update_sync_state, con.close(), the upload
\* of the DuckDB file when DUCKDB_GCS_BLOB is set, and the return
RefreshFinish ==
    /\ refreshJob.pc = "finish"
    /\ \E uploaded \in BOOLEAN, env \in RequiredEnvs,
          upload \in UploadOutcomes \cup {"skipped"} :
       \E wrote \in {_update_sync_state(syncState, refreshJob.state,
                                        refreshJob.bigquery_updated_at,
                                        clock, uploaded, env)} :
           IF refreshJob.dry_run
           THEN /\ refreshJob' = [refreshJob EXCEPT !.pc = "returned"]
                /\ UNCHANGED <<syncState, warehouse>>
           ELSE /\ syncState' = wrote.files
                /\ IF wrote.raised
                   THEN /\ refreshJob' = [refreshJob EXCEPT !.pc = "raised"]
                        /\ UNCHANGED warehouse
                   ELSE /\ refreshJob' =
                               [refreshJob EXCEPT
                                   !.pc = IF upload = "raised" THEN "raised" ELSE "returned",
                                   !.uploaded = upload = "ok"]
                        /\ warehouse' =
                               IF upload = "ok"
                               THEN [warehouse EXCEPT !.uploads = @ + 1]
                               ELSE warehouse
    /\ UNCHANGED parquet
    /\ UNCHANGED <<source, clock, stateStore, job>>
    /\ UNCHANGED pipeVars
    /\ UNCHANGED cacheVars

NextRefresh ==
    \/ PartitionLands
    \/ RefreshStart
    \/ RefreshMart
    \/ RefreshFinish

SpecRefresh == InitRefresh /\ [][NextRefresh]_vars

----------------------------------------------------------------------------
(* write_sync_state called on its own                                      *)

InitSyncState ==
    /\ shape = NoShape
    /\ sqlIn = <<>>
    /\ cfg = get_guardrail_config("duckdb")
    /\ pc = "idle"
    /\ res = NoResult
    /\ adapted = <<>>
    /\ handler = "none"
    /\ calls = <<>>
    /\ queryCache = EmptyStore
    /\ promptCache = [e \in Engines |-> NoEntry]
    /\ response = NoResponse
    /\ req = NoRequest
    /\ served = 0
    /\ source = {}
    /\ clock = TicksPerDay
    /\ stateStore = [bq |-> [m \in Marts |-> NoState],
                     gcs |-> [m \in Marts |-> NoState]]
    /\ job = NoJob
    /\ parquet = [local |-> TRUE, src |-> [m \in Marts |-> {}],
                  cache |-> [m \in Marts |-> {}]]
    /\ \E target \in BOOLEAN, file \in SyncStatesBefore, blob \in SyncStatesBefore :
           /\ ~target => blob = NoSyncState
           /\ syncState = [target |-> target, local |-> file, gcs |-> blob]
    /\ warehouse = [relations |-> [m \in Marts |-> NoRelation], uploads |-> 0]
    /\ refreshJob = NoRefresh
    /\ CacheIdle

\* write_sync_state(payload): refreshJob holds the payload, the value of
\* SYNC_STATE_GCS_REQUIRED, the files before the call, what became of the
\* upload and how the call ended
WriteSyncState ==
    /\ refreshJob.n < MaxRefreshes
    /\ \E payload \in SyncStatesBefore \ {NoSyncState}, uploaded \in BOOLEAN,
          env \in RequiredEnvs :
       \E wrote \in {write_sync_state(syncState, payload, uploaded, env)} :
           /\ syncState' = wrote.files
           /\ refreshJob' =
                  [refreshJob EXCEPT
                      !.pc = IF wrote.raised THEN "raised" ELSE "returned",
                      !.n = @ + 1, !.state = payload, !.env = env,
                      !.mirror = wrote.mirror,
                      !.before = [@ EXCEPT !.syncState = syncState]]
    /\ UNCHANGED <<parquet, warehouse>>
    /\ UNCHANGED <<source, clock, stateStore, job>>
    /\ UNCHANGED pipeVars
    /\ UNCHANGED cacheVars

NextSyncState == WriteSyncState

SpecSyncState == InitSyncState /\ [][NextSyncState]_vars

----------------------------------------------------------------------------
(* QueryCache called from concurrent threads                               *)

\* the (engine, sql) pairs of the calls: one statement written with other
\* whitespace, and the same statement for the other engine
Lookups ==
    {<<"duckdb", <<"SELECT", " ", "x">>>>,
     <<"duckdb", <<" ", "SELECT", "\n", " ", "x", " ">>>>,
     <<"bigquery", <<"SELECT", " ", "x">>>>}

\* the value a thread stores with its n-th call: no two calls store the same
FrameOf(th, n) == th + MaxThreads * n

InitCache ==
    /\ shape = NoShape
    /\ sqlIn = <<>>
    /\ cfg = get_guardrail_config("duckdb")
    /\ pc = "idle"
    /\ res = NoResult
    /\ adapted = <<>>
    /\ handler = "none"
    /\ calls = <<>>
    /\ queryCache = EmptyStore
    /\ promptCache = [e \in Engines |-> NoEntry]
    /\ response = NoResponse
    /\ req = NoRequest
    /\ served = 0
    /\ source = {}
    /\ clock = 1
    /\ stateStore = [bq |-> [m \in Marts |-> NoState],
                     gcs |-> [m \in Marts |-> NoState]]
    /\ job = NoJob
    /\ RefreshIdle
    /\ CacheIdle

\* a thread calls get(engine, sql): the key and time.monotonic() are
\* computed before the lock is taken
CallGet ==
    /\ \E th \in Threads, lookup \in Lookups :
           /\ threads[th].pc \in {"idle", "done"}
           /\ threads[th].n < MaxCacheCalls
           /\ threads' = [threads EXCEPT
                             ![th] = [NoCall EXCEPT
                                         !.pc = "get", !.op = "get",
                                         !.n = threads[th].n + 1,
                                         !.key = QueryKey(lookup[1], lookup[2]),
                                         !.now = clock]]
    /\ UNCHANGED <<order, written, queryCache>>
    /\ UNCHANGED <<shape, sqlIn, cfg, pc, res, adapted, handler, calls, promptCache,
                   response, req, served>>
    /\ UNCHANGED syncVars

\* the thread holds the lock: the block of get, in one step
GetLocked ==
    /\ \E th \in Threads :
           /\ threads[th].pc = "get"
           /\ \E r \in {get(queryCache, threads[th].key, threads[th].now)} :
                  /\ queryCache' = r.store
                  /\ threads' = [threads EXCEPT ![th].pc = "done",
                                                ![th].result = r.result]
    /\ UNCHANGED <<order, written>>
    /\ UNCHANGED <<shape, sqlIn, cfg, pc, res, adapted, handler, calls, promptCache,
                   response, req, served>>
    /\ UNCHANGED syncVars

\* a thread calls set(engine, sql, value): the key and expires_at are
\* computed before the lock is taken
CallSet ==
    /\ \E th \in Threads, lookup \in Lookups :
           /\ threads[th].pc \in {"idle", "done"}
           /\ threads[th].n < MaxCacheCalls
           /\ threads' = [threads EXCEPT
                             ![th] = [NoCall EXCEPT
                                         !.pc = "set", !.op = "set",
                                         !.n = threads[th].n + 1,
                                         !.key = QueryKey(lookup[1], lookup[2]),
                                         !.now = clock,
                                         !.expires_at = clock + ttl,
                                         !.value = FrameOf(th, threads[th].n)]]
    /\ UNCHANGED <<order, written, queryCache>>
    /\ UNCHANGED <<shape, sqlIn, cfg, pc, res, adapted, handler, calls, promptCache,
                   response, req, served>>
    /\ UNCHANGED syncVars

\* the thread holds the lock: the block of set with _evict_expired, in one
\* step
SetLocked ==
    /\ \E th \in Threads :
           /\ threads[th].pc = "set"
           /\ \E r \in {set(queryCache, order, threads[th].key,
                           CacheEntry(threads[th].value, threads[th].expires_at),
                           clock)} :
                  /\ queryCache' = r.store
                  /\ order' = r.order
           /\ written' = Append(written, [key |-> threads[th].key,
                                          value |-> threads[th].value,
                                          called_at |-> threads[th].now])
           /\ threads' = [threads EXCEPT ![th].pc = "done"]
    /\ UNCHANGED <<shape, sqlIn, cfg, pc, res, adapted, handler, calls, promptCache,
                   response, req, served>>
    /\ UNCHANGED syncVars

NextCache ==
    \/ Tick
    \/ CallGet
    \/ GetLocked
    \/ CallSet
    \/ SetLocked

SpecCache == InitCache /\ [][NextCache]_vars

----------------------------------------------------------------------------
(* CompositeStateStore called on its own                                   *)

\* what a backend may hold for a mart: nothing, a missing table or bucket,
\* or a state with or without date and timestamp
StoreEntries(m) ==
    {NoState, NotFound}
        \cup {ExportState(m, d, ts) : d \in {NoDate, 1}, ts \in {NoTs, 1, TicksPerDay}}

InitStore ==
    /\ shape = NoShape
    /\ sqlIn = <<>>
    /\ cfg = get_guardrail_config("duckdb")
    /\ pc = "idle"
    /\ res = NoResult
    /\ adapted = <<>>
    /\ handler = "none"
    /\ calls = <<>>
    /\ queryCache = EmptyStore
    /\ promptCache = [e \in Engines |-> NoEntry]
    /\ response = NoResponse
    /\ req = NoRequest
    /\ served = 0
    /\ source = {}
    /\ clock = TicksPerDay
    /\ \E b \in StoreEntries(ALLOWLISTED_MARTS[1]), g \in StoreEntries(ALLOWLISTED_MARTS[1]) :
           stateStore = [bq |-> [m \in Marts |->
                                    IF m = ALLOWLISTED_MARTS[1] THEN b ELSE NoState],
                         gcs |-> [m \in Marts |->
                                     IF m = ALLOWLISTED_MARTS[1] THEN g ELSE NoState]]
    /\ job = NoJob
    /\ RefreshIdle
    /\ CacheIdle

\* state_store.load(mart_name): job holds what the caller got
StoreLoad ==
    /\ job.n < MaxRuns
    /\ \E mart_name \in Marts :
           job' = [job EXCEPT !.pc = "loaded", !.n = @ + 1, !.mart = mart_name,
                              !.loaded[mart_name] = load(stateStore, mart_name)]
    /\ UNCHANGED <<source, clock, stateStore>>
    /\ UNCHANGED pipeVars
    /\ UNCHANGED cacheVars
    /\ UNCHANGED refreshVars

\* state_store.write(state): job holds what the caller wrote and how the
\* call ended
StoreWrite ==
    /\ job.n < MaxRuns
    /\ \E mart_name \in Marts, outcome \in WriteOutcomes :
       \E state \in StoreEntries(mart_name) \ {NoState, NotFound} :
           /\ stateStore' = write(stateStore, state, outcome)
           /\ job' = [job EXCEPT !.pc = outcome, !.n = @ + 1, !.mart = mart_name,
                                 !.written = Append(@, state)]
    /\ UNCHANGED <<source, clock>>
    /\ UNCHANGED pipeVars
    /\ UNCHANGED cacheVars
    /\ UNCHANGED refreshVars

NextStore == StoreLoad \/ StoreWrite

SpecStore == InitStore /\ [][NextStore]_vars

----------------------------------------------------------------------------
(* What a statement says, read off its shape rather than off the regexes   *)

\* the references the statement reads, in FROM, JOIN or comma position
ReadRefs(q) == ({q.from} \ {NoRef}) \cup ({q.join[2]} \ {"none"})

\* the base names of the allow-listed models
AllowedTables(c) == {LowerSeq(StripTicks(Last(SplitDots(m)))) : m \in c.allowed_models}

\* the denylisted keywords written as whole words, in whatever letter case
SelectKeywords ==
    [x |-> {}, part |-> {}, embed |-> {}, literal |-> {"DROP", "UPDATE"},
     lower |-> {"UPDATE"}, drop |-> {"DROP"}, cte |-> {}, semi |-> {}, empty |-> {}]

KeywordsWritten(q) ==
    SelectKeywords[q.select] \cup (IF q.end = "stmt2" THEN {"DROP"} ELSE {})

\* the statement without the padding and the one trailing semicolon
Body(q) ==
    WithText[q.with] \o SelectText[q.select] \o FromText(q.from)
        \o JoinText(q.join) \o TailText[q.tail]

EndsWith(s, suffix) ==
    Len(s) >= Len(suffix) /\ SubSeq(s, Len(s) - Len(suffix) + 1, Len(s)) = suffix

LimitSuffix(c) == <<"\n", "LIMIT", " ">> \o Decimal(c.enforce_limit)

\* <expr> - INTERVAL '<n>' DAY
DayRewrite(expr, days) ==
    expr \o <<" ", "-", " ", "INTERVAL", " ", "'">> \o days \o <<"'", " ", "DAY">>

\* the DATE_SUB calls of a statement with every DAY call rewritten and every
\* other call as it was written
RECURSIVE DatesRewritten(_, _)
DatesRewritten(d, i) ==
    LET expr == IF d[i].expr = "nested" THEN DayRewrite(<<"z">>, <<"1">>)
                ELSE DateSubExpr[d[i].expr]
    IN  IF i > Len(d) THEN <<>>
        ELSE <<" ", "AND", " ", "z", " ", "=", " ">>
                 \o (IF d[i].unit \in {"DAY", "day"} THEN DayRewrite(expr, d[i].days)
                     ELSE DateSubText(d[i], expr))
                 \o DatesRewritten(d, i + 1)

\* a reference written without a dot, and a reference to a CTE of the statement
BareRef(r) == RefMeaning[r].project = None /\ RefMeaning[r].dataset = None
CteRef(q, r) == RefMeaning[r].table \in WithNames[q.with]

\* the references of the statement that follow a FROM or JOIN keyword, are
\* bare and name no CTE
FromIsBare(q) == q.from # NoRef /\ BareRef(q.from) /\ ~CteRef(q, q.from)
JoinIsBare(q) == q.join[1] = "join" /\ BareRef(q.join[2]) /\ ~CteRef(q, q.join[2])

\* `<GCP_PROJECT_ID>.<BQ_DATASET_MART>.<name>` for the name as it is written
QualifiedRef(r) ==
    <<BT>> \o GCP_PROJECT_ID \o <<".">> \o BQ_DATASET_MART \o <<".">>
        \o SelectSeq(RefText[r], LAMBDA a : a # BT) \o <<BT>>

\* the statement up to its FROM clause, and from its tail on
HeadText(q) ==
    (IF q.end = "pad" THEN <<" ">> ELSE <<>>) \o WithText[q.with] \o SelectText[q.select]
RestText(q) == TailText[q.tail] \o EndText[q.end]

BeginsWith(s, prefix) == Len(s) >= Len(prefix) /\ SubSeq(s, 1, Len(prefix)) = prefix

\* the statements that differ from q in bare non-CTE FROM/JOIN references
\* only, each of them either as written or qualified
QualifiedForms(q) ==
    {HeadText(q) \o f \o j \o RestText(q) :
        f \in {FromText(q.from)}
                 \cup (IF FromIsBare(q)
                       THEN {<<" ", "FROM", " ">> \o QualifiedRef(q.from)} ELSE {}),
        j \in {JoinText(q.join)}
                 \cup (IF JoinIsBare(q)
                       THEN {<<" ", "JOIN", " ">> \o QualifiedRef(q.join[2])} ELSE {})}

\* the export jobs the current run has issued for a mart, in order, and the
\* states it has written for it
ExportJobs(m) == SelectSeq(job.queries, LAMBDA q : q.kind = "export" /\ q.mart = m)
StatesWritten(m) == SelectSeq(job.written, LAMBDA w : w.mart_name = m)
ResultsFor(m) == SelectSeq(job.results, LAMBDA r : r.mart_name = m)

\* the run has gone through the mart: it has listed its partitions
Listed(m) == \E i \in 1..Len(job.queries) :
                 job.queries[i].kind = "list" /\ job.queries[i].mart = m

\* the partition dates due in this run: those of the source from since on
\* and behind the loaded last_service_date
DueDates(m) ==
    {d \in source : d >= job.since /\ d > job.loaded[m].last_service_date}

\* the ways a reference may be written in the output of sanitize_sql under
\* bigquery: as it was when it has no hyphen or stands in one pair of
\* backticks, else as a whole in one pair of backticks (a reference with
\* backticks around its hyphenated segment only may also stay as it was)
QuotedRefs(r) ==
    LET text == RefText[r]
        bare == SelectSeq(text, LAMBDA a : a # BT)
        whole == <<BT>> \o bare \o <<BT>>
    IN  IF r = NoRef THEN {<<>>}
        ELSE IF "-" \notin Range(text) \/ text = whole THEN {text}
        ELSE IF text = bare THEN {whole}
        ELSE {whole, text}

\* the statement with each FROM/JOIN reference written in one of these ways
QuotedForms(q) ==
    {WithText[q.with] \o SelectText[q.select]
         \o (IF q.from = NoRef THEN <<>> ELSE <<" ", "FROM", " ">> \o f)
         \o (IF q.join = NoJoin THEN <<>> ELSE Joiners[q.join[1]] \o j)
         \o TailText[q.tail] :
        f \in QuotedRefs(q.from),
        j \in IF q.join[1] = "join" THEN QuotedRefs(q.join[2])
              ELSE IF q.join = NoJoin THEN {<<>>} ELSE {RefText[q.join[2]]}}

----------------------------------------------------------------------------
(* Claims                                                                  *)

\* C1: a statement that reads a base table which is neither allow-listed nor
\* a CTE of the statement, in FROM, JOIN or comma position, is never
\* returned as sanitized SQL.
C1_UnlistedTableNeverReturned ==
    pc # "start" =>
        \A r \in ReadRefs(shape) :
            (/\ RefMeaning[r].table \notin AllowedTables(cfg)
             /\ RefMeaning[r].table \notin WithNames[shape.with]) => ~res.ok

\* C2: a denylisted keyword written as a whole word anywhere, in any letter
\* case, makes sanitize_sql raise; and the denylist error names only keywords
\* that are written as whole words, never one embedded in a longer word.
C2_DenylistWholeWords ==
    pc # "start" =>
        /\ KeywordsWritten(shape) # {} => ~res.ok
        /\ res.stage = "denylist" =>
               res.names \subseteq {<<kw>> : kw \in KeywordsWritten(shape)}
        /\ (shape.select = "embed" /\ KeywordsWritten(shape) = {}) =>
               res.stage # "denylist"

\* C2 witness: a SELECT that reads an allow-listed table and holds a
\* lower-case keyword is rejected by the denylist.
C2_Witness ==
    /\ pc = "sanitized"
    /\ shape.select = "lower"
    /\ shape.from = "t_ok"
    /\ res.stage = "denylist"
    /\ res.names = {<<"UPDATE">>}

\* C3: with a non-empty effective project set, a statement that reads a
\* reference whose project lies outside the set is rejected, also when its
\* base table is allow-listed; likewise for the dataset.
C3_ForeignNamespaceRejected ==
    (pc # "start" /\ cfg.pkg = "whyline") =>
        LET allowed == _compile_allowed_sets(cfg.allowed_models, cfg.allowed_projects,
                                             cfg.allowed_datasets)
        IN  \A r \in ReadRefs(shape) :
                LET m == RefMeaning[r]
                IN  (/\ m.table \notin WithNames[shape.with]
                     /\ \/ /\ allowed.projects # {} /\ m.project # None
                           /\ m.project \notin allowed.projects
                        \/ /\ allowed.datasets # {} /\ m.dataset # None
                           /\ m.dataset \notin allowed.datasets)
                    => ~res.ok

\* C4: no name bound by a CTE of the statement, the first one or a later one
\* of the comma-chained WITH list, is reported as an unauthorized table.
C4_CteNamesExempt ==
    pc # "start" =>
        \A n \in WithNames[shape.with] :
            ~(res.stage = "tables" /\ n \in res.names)

\* C5: a handler calls adapt_sql_for_engine only on the string that the
\* sanitize_sql call just before it returned, and never hands sanitize_sql a
\* string that adapt_sql_for_engine has produced.
C5_AdaptOnlyAfterSanitize ==
    \A i \in 1..Len(calls) :
        /\ calls[i].fn = "adapt_sql_for_engine" =>
               /\ i > 1
               /\ calls[i - 1].fn = "sanitize_sql"
               /\ calls[i - 1].ok
               /\ calls[i - 1].out = calls[i].arg
        /\ calls[i].fn = "sanitize_sql" => calls[i].src # "adapt_sql_for_engine"

\* the cache keys of the statements sanitize_sql accepts: the adapted form
\* for run_query, the sanitized form for download_mart
AcceptedKeysOf(e) ==
    LET accepted ==
            {r \in UNION {sanitize_sql(Render(q), get_guardrail_config(e)) : q \in ApiShapes} :
                r.ok}
        downloads ==
            {r \in UNION {sanitize_sql(DownloadSql(rq), get_guardrail_config(e)) :
                              rq \in Requests("download_mart")} : r.ok}
    IN  {QueryKey(e, adapt_sql_for_engine(r.sql, e, DbtModels, "whyline")) : r \in accepted}
            \cup {QueryKey(e, r.sql) : r \in downloads}

AcceptedKeys == UNION {AcceptedKeysOf(e) : e \in Engines}

\* C6: run_query validates the request SQL before anything else; the cache
\* and the engine only ever see the adapted form of the SQL that this
\* sanitize_sql call returned; when the call raises, nothing else is called,
\* the cache keeps its content and the response carries the error of
\* sanitize_sql with zero rows.
C6_RunQueryResanitizes ==
    (handler = "run_query" /\ pc = "responded") =>
        /\ calls # <<>>
        /\ calls[1] = Call("sanitize_sql", "request", sqlIn, res.ok, res.sql)
        /\ res \in sanitize_sql(sqlIn, cfg)
        /\ \A i \in 2..Len(calls) :
               /\ res.ok
               /\ calls[i].fn \in {"query_cache.get", "execute", "query_cache.set", "log_query"}
                      => calls[i].arg =
                             adapt_sql_for_engine(res.sql, cfg.engine, DbtModels, cfg.pkg)
        /\ DOMAIN queryCache \subseteq AcceptedKeys
        /\ ~res.ok =>
               /\ Len(calls) = 1
               /\ response.kind = "error"
               /\ response.error = res.stage
               /\ response.names = res.names
               /\ response.rows = 0
               /\ response.total_rows = 0

\* C6 witness: a request for an unknown table arrived while the cache held
\* an entry, and was answered with the table error and no rows.
C6_Witness ==
    /\ handler = "run_query"
    /\ pc = "responded"
    /\ shape.from = "secret"
    /\ ~res.ok
    /\ response.kind = "error"
    /\ response.error = "tables"
    /\ response.rows = 0
    /\ DOMAIN queryCache # {}
    /\ Len(calls) = 1

\* C11: in every REST endpoint a sanitize_sql call that raises ends the
\* handler with a user-visible error, the error field of the response or an
\* HTTP 400, that carries the message of the SqlValidationError; nothing is
\* called after it and the error never leaves the handler unhandled.
C11_ValidationErrorCaught ==
    (handler \in RestHandlers /\ pc = "responded") =>
        \A i \in 1..Len(calls) :
            (calls[i].fn = "sanitize_sql" /\ ~calls[i].ok) =>
                /\ i = Len(calls)
                /\ response.kind \in {"error", "http400"}
                /\ response.error = res.stage
                /\ response.names = res.names

\* C11 witness: the prebuilt query on a mart the models lack was answered
\* with the table error in the error field.
C11_Witness ==
    /\ handler = "prebuilt_sql_for_engine"
    /\ pc = "responded"
    /\ calls # <<>>
    /\ ~calls[1].ok
    /\ response.kind = "error"
    /\ response.error = "tables"
    /\ response.names = {<<"secret">>}

\* C12: every request handled by run_query, one answered with an error
\* included, has made a log_query call that returned before the response, and
\* the SQL of that call is the sanitized and adapted SQL, never the SQL of
\* the request as it came in.
C12_EveryRequestLogged ==
    (handler = "run_query" /\ pc = "responded") =>
        \E i \in 1..Len(calls) :
            /\ calls[i].fn = "log_query"
            /\ calls[i].ok
            /\ calls[i].src = "adapt_sql_for_engine"
            /\ calls[i].arg = adapted

\* C13: under duckdb adapt_sql_for_engine turns every DATE_SUB call with a
\* DAY interval, in any letter case, into <expr> - INTERVAL '<n>' DAY with
\* the expression and the number of the call, and leaves all other text,
\* a DATE_SUB call with another unit included, as it was.
C13_DateSubRewritten ==
    (pc = "adapted" /\ cfg.engine = "duckdb" /\ shape.dates # <<>>) =>
        adapted = Render(shape) \o DatesRewritten(shape.dates, 1)

\* C14: under bigquery with a non-empty models map, every bare table token
\* behind FROM or JOIN that names no CTE comes out as the project, the
\* dataset and the name in one pair of backticks, with the keyword in front
\* of it and whatever followed it behind it.
C14_BareTablesQualified ==
    (/\ pc = "adapted" /\ cfg.engine = "bigquery" /\ DOMAIN cfg.models # {}
     /\ shape.dates = <<>>) =>
        /\ FromIsBare(shape) =>
               BeginsWith(adapted, HeadText(shape) \o <<" ", "FROM", " ">>
                                       \o QualifiedRef(shape.from)
                                       \o (IF shape.join = NoJoin THEN RestText(shape)
                                           ELSE <<>>))
        /\ JoinIsBare(shape) =>
               EndsWith(adapted, <<" ", "JOIN", " ">> \o QualifiedRef(shape.join[2])
                                     \o RestText(shape))

\* C15: adapt_sql_for_engine of src/whyline under bigquery changes nothing
\* but bare FROM/JOIN table tokens that name no CTE: dotted references and
\* CTE names come out as written, with no models the whole string does, and
\* adapting the result again returns it unchanged.
C15_NothingElseChanged ==
    (cfg.pkg = "whyline" /\ cfg.engine = "bigquery" /\ shape.dates = <<>>) =>
        /\ pc = "adapted" => adapted \in QualifiedForms(shape)
        /\ (pc = "adapted" /\ DOMAIN cfg.models = {}) => adapted = sqlIn
        /\ pc = "readapted" => adapted = sqlIn

\* C15 witness: a CTE name behind FROM and a dotted reference behind JOIN
\* came out as written, and the second call returned what it was given.
C15_Witness ==
    /\ cfg.pkg = "whyline" /\ cfg.engine = "bigquery" /\ DOMAIN cfg.models # {}
    /\ pc = "readapted"
    /\ shape.with = "quoted" /\ shape.from = "foo" /\ shape.join = <<"join", "pb_t_ok">>
    /\ adapted = sqlIn
    /\ adapted = Render(shape)

\* C16: in what sanitize_sql of src/whyline returns under bigquery every
\* FROM/JOIN reference with a hyphen stands as a whole in exactly one pair of
\* backticks, and references without a hyphen or already in backticks are as
\* they were written; under duckdb no backtick is added.
C16_HyphenatedQuoted ==
    (pc # "start" /\ res.ok /\ cfg.pkg = "whyline") =>
        LET out == IF shape.tail = "limit" THEN res.sql
                   ELSE SubSeq(res.sql, 1, Len(res.sql) - Len(LimitSuffix(cfg)))
        IN  IF cfg.engine = "bigquery" THEN out \in QuotedForms(shape)
            ELSE out = Body(shape)

\* C17: a run that returns has exported, for the partitioned mart, exactly
\* the dates of the source from max(since, loaded last_service_date + 1) on,
\* one job per date in ascending order and none at or before the loaded
\* last_service_date; the state then persisted carries the greatest of them
\* and the time of the final persist, and the result lists them in order.
C17_IncrementalExport ==
    LET m == ALLOWLISTED_MARTS[1]
        jobs == ExportJobs(m)
        states == StatesWritten(m)
        results == ResultsFor(m)
    IN  (job.pc = "returned" /\ Listed(m)) =>
            /\ {jobs[i].date : i \in 1..Len(jobs)} = DueDates(m)
            /\ Len(jobs) = Cardinality(DueDates(m))
            /\ \A i \in 1..Len(jobs) :
                   /\ jobs[i].ok
                   /\ jobs[i].date > job.loaded[m].last_service_date
                   /\ i > 1 => jobs[i - 1].date < jobs[i].date
            /\ IF DueDates(m) = {}
               THEN results = <<>> /\ states = <<>> /\ load(stateStore, m) = job.loaded[m]
               ELSE /\ Len(results) = 1
                    /\ results[1].exported_partitions = [i \in 1..Len(jobs) |-> jobs[i].date]
                    /\ \A d \in DueDates(m) :
                           d <= load(stateStore, m).last_service_date
                    /\ load(stateStore, m).last_service_date \in DueDates(m)
                    /\ load(stateStore, m) = states[Len(states)]
                    /\ stateStore.bq[m] = stateStore.gcs[m]
                    /\ results[1].last_run_ts = states[Len(states)].last_run_ts

\* C17 witness: a second run, given since = 1 and loading last_service_date
\* = 1 from a run that had stopped early, exported the dates 2 and 3.
C17_Witness ==
    /\ job.pc = "returned"
    /\ job.n = 2
    /\ job.since = 1
    /\ job.loaded[ALLOWLISTED_MARTS[1]].last_service_date = 1
    /\ source = {1, 2, 3}
    /\ Len(ExportJobs(ALLOWLISTED_MARTS[1])) = 2
    /\ ResultsFor(ALLOWLISTED_MARTS[1]) # <<>>
    /\ ResultsFor(ALLOWLISTED_MARTS[1])[1].exported_partitions = <<2, 3>>
    /\ load(stateStore, ALLOWLISTED_MARTS[1]).last_service_date = 3

\* C18: a run that returns has, for a snapshot mart whose loaded state has a
\* last_run_ts on or after the current UTC date, issued no query, written no
\* state and returned no result; for any other loaded state it has run
\* exactly one export job and persisted last_service_date = today.
C18_SnapshotOncePerDay ==
    LET m == ALLOWLISTED_MARTS[2]
        loaded == job.loaded[m]
    IN  (job.pc = "returned" /\ job.today # NoDate) =>
            IF loaded.last_run_ts # NoTs /\ UtcDate(loaded.last_run_ts) >= job.today
            THEN /\ \A i \in 1..Len(job.queries) : job.queries[i].mart # m
                 /\ StatesWritten(m) = <<>>
                 /\ ResultsFor(m) = <<>>
                 /\ load(stateStore, m) = loaded
            ELSE /\ Len(ExportJobs(m)) = 1
                 /\ ExportJobs(m)[1].ok
                 /\ \A i \in 1..Len(job.queries) :
                        job.queries[i].mart = m => job.queries[i].kind = "export"
                 /\ Len(StatesWritten(m)) = 1
                 /\ load(stateStore, m) = StatesWritten(m)[1]
                 /\ load(stateStore, m).last_service_date = job.today
                 /\ Len(ResultsFor(m)) = 1
                 /\ ResultsFor(m)[1].exported_partitions = <<job.today>>

\* C18 witness: the second run of the day found the state of the first and
\* did nothing for the snapshot mart.
C18_Witness ==
    /\ job.pc = "returned"
    /\ job.n = 2
    /\ job.today = 1
    /\ job.loaded[ALLOWLISTED_MARTS[2]].last_service_date = 1
    /\ UtcDate(job.loaded[ALLOWLISTED_MARTS[2]].last_run_ts) = 1
    /\ job.queries = <<>>
    /\ job.results = <<>>

\* C19: from its call on, refresh(dry_run=True) has executed no CREATE OR
\* REPLACE statement, left the tables and views of the DuckDB file, the local
\* sync_state.json and its GCS mirror as they were before the call, and
\* uploaded no DuckDB file; when it has returned, its results hold one
\* RefreshResult for every mart of the allow-list.
C19_DryRunMutatesNothing ==
    (refreshJob.pc # "idle" /\ refreshJob.dry_run) =>
        /\ refreshJob.executed = <<>>
        /\ warehouse.relations = refreshJob.before.relations
        /\ syncState.gcs = refreshJob.before.syncState.gcs
        /\ syncState.local = refreshJob.before.syncState.local
        /\ ~refreshJob.uploaded
        /\ refreshJob.pc = "returned" =>
               /\ Len(refreshJob.results) = Len(ALLOWLISTED_MARTS)
               /\ \A i \in 1..Len(ALLOWLISTED_MARTS) :
                      refreshJob.results[i].mart_name = ALLOWLISTED_MARTS[i]

\* the greatest of a set of run dates
Greatest(S) == CHOOSE d \in S : \A e \in S : e <= d

\* C20: in a refresh that is not a dry run, the statement of a refreshed mart
\* of LATEST_RUN_DATE_ONLY_MARTS that has run_date partitions names the
\* greatest of them only, and the table or view holds that partition only;
\* when the refresh has returned, sync_state.json holds for every refreshed
\* mart the greatest run_date its statement read.
C20_LatestRunDateOnly ==
    (refreshJob.pc \in {"marts", "finish", "returned"} /\ ~refreshJob.dry_run) =>
        \A i \in 1..Len(refreshJob.results) :
            LET mart == refreshJob.results[i].mart_name
                read == warehouse.relations[mart].run_dates
            IN  /\ (mart \in LATEST_RUN_DATE_ONLY_MARTS /\ refreshJob.found[mart] # {}) =>
                       /\ refreshJob.results[i].run_dates =
                              <<Greatest(refreshJob.found[mart])>>
                       /\ refreshJob.executed[i].paths =
                              Paths(<<Greatest(refreshJob.found[mart])>>)
                       /\ read = {Greatest(refreshJob.found[mart])}
                /\ refreshJob.pc = "returned" =>
                       /\ read # {}
                       /\ syncState.local.exists
                       /\ syncState.local.marts[mart] = Greatest(read)

\* C20 witness: a refresh that has returned read the second of the two
\* partitions of the snapshot mart and recorded it, over an older sync state.
C20_Witness ==
    /\ refreshJob.pc = "returned"
    /\ ~refreshJob.dry_run
    /\ refreshJob.found[ALLOWLISTED_MARTS[2]] = {1, 2}
    /\ refreshJob.before.syncState.local.marts[ALLOWLISTED_MARTS[2]] = 1
    /\ warehouse.relations[ALLOWLISTED_MARTS[2]] = [kind |-> "view", run_dates |-> {2}]
    /\ syncState.local.marts[ALLOWLISTED_MARTS[2]] = 2
    /\ Cardinality(refreshJob.found[ALLOWLISTED_MARTS[1]]) = 2
    /\ warehouse.relations[ALLOWLISTED_MARTS[1]].run_dates = {1, 2}

\* the references written behind FROM or JOIN
KeywordRefs(q) ==
    ({q.from} \ {NoRef}) \cup (IF q.join[1] = "join" THEN {q.join[2]} ELSE {})

\* C21: sanitize_sql of src/whyline never reports a FROM/JOIN reference whose
\* last segment is the name of a CTE of the statement, qualified or not, as an
\* unauthorized table, project or dataset; a statement all of whose FROM/JOIN
\* references are such names passes the table and namespace checks.
C21_CteNamedReferenceDropped ==
    (pc # "start" /\ cfg.pkg = "whyline") =>
        LET dropped == {r \in KeywordRefs(shape) :
                           RefMeaning[r].table \in WithNames[shape.with]}
        IN  /\ \A r \in dropped :
                   /\ ~(res.stage = "tables" /\ RefMeaning[r].table \in res.names)
                   /\ ~(res.stage \in {"projects", "datasets"}
                           /\ RefText[r] \in res.names)
            /\ dropped = KeywordRefs(shape) =>
                   res.stage \notin {"tables", "projects", "datasets"}

\* C21 witness: with allowed_projects = {proj_a}, a statement reading
\* proj_b.ds.foo under WITH foo AS (...) is returned.
C21_Witness ==
    /\ pc = "sanitized"
    /\ cfg.pkg = "whyline"
    /\ cfg.allowed_projects = {<<"proj_a">>}
    /\ cfg.allowed_datasets = {<<"ds">>}
    /\ shape.with = "one"
    /\ shape.from = "pb_foo"
    /\ shape.join = NoJoin
    /\ res.ok

\* a semicolon is left once the padding and one trailing semicolon are gone
SemicolonLeft(q) == q.end \in {"semi2", "stmt2"} \/ q.select = "semi"

\* C22: a statement in which a semicolon is left after the surrounding
\* whitespace and one trailing semicolon are stripped (a second trailing one,
\* one between two statements, one inside a string literal) is rejected as
\* multiple statements; any other statement is never rejected for that
\* reason, is returned without a semicolon, and is returned exactly as the
\* statement without its padding and trailing semicolon is.
C22_OneTrailingSemicolon ==
    pc # "start" =>
        IF SemicolonLeft(shape)
        THEN res.stage = "multiple"
        ELSE /\ res.stage # "multiple"
             /\ res.ok => ~Contains(res.sql, ";")
             /\ (\E r \in sanitize_sql(Body(shape), cfg) : r.ok) =>
                    res \in sanitize_sql(Body(shape), cfg)

\* C22 witness: a statement written with leading blank, blank, semicolon and
\* newline at its end is returned.
C22_Witness ==
    /\ pc = "sanitized"
    /\ shape.end = "pad"
    /\ shape.from = "t_ok"
    /\ shape.tail = "where"
    /\ res.ok
    /\ res.sql = Body(shape) \o LimitSuffix(cfg)

\* the projects and datasets the fully-qualified entries of allowed_models
\* name (project.dataset.table is five atoms, dataset.table three)
ModelProjects(c) ==
    {<<m[1]>> : m \in {x \in c.allowed_models : Len(x) = 5 /\ x[2] = "." /\ x[4] = "."}}
ModelDatasets(c) ==
    {<<m[3]>> : m \in {x \in c.allowed_models : Len(x) = 5 /\ x[2] = "." /\ x[4] = "."}}
        \cup {<<m[1]>> : m \in {x \in c.allowed_models : Len(x) = 3 /\ x[2] = "."}}

\* the effective sets: the explicit one alone when it is given and not empty
EffectiveProjects(c) ==
    IF c.allowed_projects \notin {NoneSet, {}} THEN c.allowed_projects
    ELSE ModelProjects(c)
EffectiveDatasets(c) ==
    IF c.allowed_datasets \notin {NoneSet, {}} THEN c.allowed_datasets
    ELSE ModelDatasets(c)

\* the FROM/JOIN references outside a set of projects (datasets) that is not
\* empty; a reference that names none is never outside
OutsideProjects(q, c) ==
    {r \in KeywordRefs(q) :
        /\ RefMeaning[r].table \notin WithNames[q.with]
        /\ EffectiveProjects(c) # {}
        /\ RefMeaning[r].project # None
        /\ RefMeaning[r].project \notin EffectiveProjects(c)}
OutsideDatasets(q, c) ==
    {r \in KeywordRefs(q) :
        /\ RefMeaning[r].table \notin WithNames[q.with]
        /\ EffectiveDatasets(c) # {}
        /\ RefMeaning[r].dataset # None
        /\ RefMeaning[r].dataset \notin EffectiveDatasets(c)}

\* C23: a statement that reaches the namespace check of src/whyline is
\* rejected for its projects exactly when a FROM/JOIN reference names a
\* project outside the effective project set, and otherwise for its datasets
\* exactly when one names a dataset outside the effective dataset set; the
\* effective set is the explicit one alone when that is non-empty and the one
\* derived from allowed_models otherwise, and an empty effective set checks
\* nothing.
C23_EffectiveNamespaceSets ==
    (/\ pc # "start"
     /\ cfg.pkg = "whyline"
     /\ res.stage \in {"projects", "datasets", "partition", "ok"}) =>
        /\ res.stage = "projects" <=> OutsideProjects(shape, cfg) # {}
        /\ res.stage = "datasets" <=>
               (OutsideProjects(shape, cfg) = {} /\ OutsideDatasets(shape, cfg) # {})
        /\ res.stage = "projects" =>
               res.names = {RefText[r] : r \in OutsideProjects(shape, cfg)}
        /\ res.stage = "datasets" =>
               res.names = {RefText[r] : r \in OutsideDatasets(shape, cfg)}

\* C23 witness: with allowed_models = {proj_a.ds.t_ok} and allowed_projects =
\* {proj_b}, a statement reading proj_b.ds.t_ok is returned.
C23_Witness ==
    /\ pc = "sanitized"
    /\ cfg.allowed_models = {<<"proj_a", ".", "ds", ".", "t_ok">>}
    /\ cfg.allowed_projects = {<<"proj_b">>}
    /\ shape.from = "pb_t_ok"
    /\ shape.join = NoJoin
    /\ res.ok

\* the base tables of the FROM/JOIN references that are neither CTE names nor
\* allow-listed
UnlistedTables(q, c) ==
    {RefMeaning[r].table : r \in KeywordRefs(q)}
        \ (WithNames[q.with] \cup AllowedTables(c))

\* C24: a statement that reaches the allow-list check of src/whyline is
\* rejected for its tables exactly when the base name of a FROM/JOIN
\* reference that is not a CTE name, in lower case and without backticks,
\* differs from the base name of every entry of allowed_models, normalized the
\* same way; the error names those base names.
C24_BaseNamesCompared ==
    (/\ pc # "start"
     /\ cfg.pkg = "whyline"
     /\ res.stage \in {"tables", "projects", "datasets", "partition", "ok"}) =>
        /\ res.stage = "tables" <=> UnlistedTables(shape, cfg) # {}
        /\ res.stage = "tables" => res.names = UnlistedTables(shape, cfg)

\* C24 witness: with allowed_models = {`T_OK`}, a statement reading `t_ok`
\* and proj_b.ds.t_ok is returned.
C24_Witness ==
    /\ pc = "sanitized"
    /\ cfg.pkg = "whyline"
    /\ cfg.allowed_models = {<<BT, "T_OK", BT>>}
    /\ shape.from = "q_t_ok"
    /\ shape.join = <<"join", "pb_t_ok">>
    /\ res.ok

\* a backend holds nothing for the mart, or is missing
EmptyBackend(x) == x \in {NoState, NotFound}

\* the state load has to return for what the two backends hold
Freshest(b, g) ==
    IF EmptyBackend(b) /\ EmptyBackend(g) THEN NoState
    ELSE IF EmptyBackend(g) THEN b
    ELSE IF EmptyBackend(b) THEN g
    ELSE IF g.last_run_ts > b.last_run_ts THEN g
    ELSE b

\* C25: load returns None when both backends are empty or missing, the state
\* of the one backend that has one, and of two states the GCS one when its
\* last_run_ts is strictly greater (None being the least) and the BigQuery one
\* otherwise; write that returns has stored the state in both backends, write
\* that raises in GCS has stored it in BigQuery only, and write that raises
\* in BigQuery has stored nothing.
C25_FreshestState ==
    [][/\ job'.pc = "loaded" =>
              job'.loaded[job'.mart] =
                  Freshest(stateStore.bq[job'.mart], stateStore.gcs[job'.mart])
       /\ job'.pc \in WriteOutcomes =>
              LET state == job'.written[Len(job'.written)]
                  m == job'.mart
              IN  /\ stateStore'.bq[m] =
                         IF job'.pc = "bq_raises" THEN stateStore.bq[m] ELSE state
                  /\ stateStore'.gcs[m] =
                         IF job'.pc = "ok" THEN state ELSE stateStore.gcs[m]
                  /\ \A o \in Marts \ {m} :
                         /\ stateStore'.bq[o] = stateStore.bq[o]
                         /\ stateStore'.gcs[o] = stateStore.gcs[o]]_vars

\* C25 witness: BigQuery and GCS hold states of the same last_run_ts and
\* different dates, and load returned the one of BigQuery.
C25_Witness ==
    /\ job.pc = "loaded"
    /\ job.mart = ALLOWLISTED_MARTS[1]
    /\ stateStore.bq[job.mart] = ExportState(job.mart, NoDate, 1)
    /\ stateStore.gcs[job.mart] = ExportState(job.mart, 1, 1)
    /\ job.loaded[job.mart] = stateStore.bq[job.mart]

\* SYNC_STATE_GCS_REQUIRED asks for the upload: one of 1, true, yes, on, in
\* either case and with blanks around it
AsksForUpload(env) ==
    env \in {<<"1">>, <<"true">>, <<"yes">>, <<"on">>, <<"TRUE">>,
             <<" ", "on", " ">>, <<"YES", "\n">>}

\* C26: after every call of write_sync_state, raised or returned, the local
\* file holds the payload; without a bucket no upload is attempted, the blob
\* is as before and the call returns; with a bucket the blob holds the
\* payload when the upload went through and is as before when it failed; the
\* call raises SyncStateUploadError exactly when the upload failed and
\* SYNC_STATE_GCS_REQUIRED is one of 1, true, yes, on.
C26_LocalBeforeMirror ==
    refreshJob.pc \in {"returned", "raised"} =>
        LET was == refreshJob.before.syncState
        IN  /\ syncState.local = refreshJob.state
            /\ syncState.target = was.target
            /\ ~was.target =>
                   refreshJob.mirror = "none" /\ syncState.gcs = was.gcs
            /\ was.target => refreshJob.mirror \in {"ok", "failed"}
            /\ refreshJob.mirror = "ok" => syncState.gcs = refreshJob.state
            /\ refreshJob.mirror = "failed" => syncState.gcs = was.gcs
            /\ refreshJob.pc = "raised" <=>
                   refreshJob.mirror = "failed" /\ AsksForUpload(refreshJob.env)

\* C26 witness: the upload failed with SYNC_STATE_GCS_REQUIRED=true, the call
\* raised, and the local file holds a payload it did not hold before while
\* the blob is a different one.
C26_Witness ==
    /\ refreshJob.pc = "raised"
    /\ refreshJob.env = <<"true">>
    /\ refreshJob.before.syncState.local # refreshJob.state
    /\ syncState.local = refreshJob.state
    /\ syncState.gcs # refreshJob.state

\* the last_service_date a load of the state store returns
Persisted(m) == load(stateStore, m).last_service_date

\* the dates whose export job completed in this run
Completed(m) ==
    {ExportJobs(m)[i].date : i \in {k \in 1..Len(ExportJobs(m)) : ExportJobs(m)[k].ok}}

C28_NoGap ==
    \A d \in source :
        d <= Persisted(ALLOWLISTED_MARTS[1]) => d \in parquet.src[ALLOWLISTED_MARTS[1]]

\* C29: the SQL that sanitize_sql and adapt_sql_for_engine of src/whyline
\* returned for an accepted statement, submitted again under the same
\* configuration, is accepted and comes back unchanged.
C29_PipelineIdempotent ==
    (pc = "resubmitted" /\ cfg.pkg = "whyline") => res.ok /\ adapted = sqlIn

\* the set calls for the key, in the order they held the lock
SetsOf(key) == SelectSeq(written, LAMBDA w : w.key = key)

\* more than ttl has passed at the time now since the set was called
Elapsed(w, now) == now - w.called_at > ttl

\* what a get that takes the lock in this step may return, the TTL being
\* judged at the time at: a value only when it is the value of the last set
\* for the key and its TTL has not elapsed; None, with the key removed from
\* the store, when the TTL of the last set has elapsed
Served(th, at) ==
    LET sets == SetsOf(threads[th].key)
        last == sets[Len(sets)]
        result == threads'[th].result
    IN  /\ result.found =>
               /\ sets # <<>>
               /\ result.value = last.value
               /\ ~Elapsed(last, at)
        /\ (sets # <<>> /\ Elapsed(last, at)) =>
               /\ ~result.found
               /\ threads[th].key \notin DOMAIN queryCache'

\* the TTL judged at the time the get read before it took the lock: holds
GetJudgedAtCall ==
    [][\A th \in Threads :
          (threads[th].pc = "get" /\ threads'[th].pc = "done") =>
              /\ Served(th, threads[th].now)
              /\ (SetsOf(threads[th].key) # <<>>
                  /\ ~Elapsed(SetsOf(threads[th].key)[Len(SetsOf(threads[th].key))],
                              clock)) =>
                     threads'[th].result.found]_vars

\* C30: in every step in which a get takes the lock and returns, it returns
\* a value only when that is the value of the last set for the key (engine
\* and whitespace-normalized SQL) and its TTL has not elapsed; when the TTL
\* has elapsed it returns None and the key is no longer in the store; after
\* every step each key of the store is in the order queue.
C30_NoExpiredEntry ==
    [][/\ \A th \in Threads :
              (threads[th].pc = "get" /\ threads'[th].pc = "done") =>
                  Served(th, clock)
       /\ DOMAIN queryCache' \subseteq Range(order')]_vars

\* each key of the store is in the order queue
StoreKeysQueued == DOMAIN queryCache \subseteq Range(order)

C8_ExistingLimitUnchanged ==
    (pc # "start" /\ res.ok /\ shape.tail = "limit" /\ cfg.engine = "duckdb") =>
        res.sql = Body(shape)

\* C8 witness: a statement with LIMIT 9999, above every enforce_limit, and a
\* trailing semicolon was accepted under duckdb.
C8_Witness ==
    /\ pc = "sanitized"
    /\ res.ok
    /\ cfg.engine = "duckdb"
    /\ shape.tail = "limit"
    /\ shape.end \in {"semi", "pad"}
    /\ cfg.enforce_limit < 9999

\* the partition column is written in the statement
TouchesPartition(q) == q.select = "part"

\* WHERE is written as a word of its own, or at least as part of a word
WhereToken(q) == q.tail \in {"where", "datesub"}
WhereText(q) == q.tail \in {"where", "datesub", "nowhere"}

StageOrder ==
    <<"empty", "multiple", "prefix", "denylist", "tables", "projects", "datasets",
      "partition">>

Breaks(stage, sql, c) ==
    LET parsed == _normalize(sql)
        allowed == _compile_allowed_sets(c.allowed_models, c.allowed_projects,
                                         c.allowed_datasets)
        references == _extract_referenced_identifiers(parsed, c.pkg)
    IN  CASE stage = "empty" -> NormalizeRaises(sql)
          [] stage = "multiple" -> MultipleStatements(parsed)
          [] stage = "prefix" -> ReadOnlyPrefix(parsed) # "ok"
          [] stage = "denylist" -> DenylistHits(parsed) # {}
          [] stage = "tables" ->
                IF c.pkg = "whyline" THEN Unauthorized(references, allowed.base) # {}
                ELSE LegacyUnauthorized(parsed, c.allowed_models) # {}
          [] stage = "projects" ->
                /\ c.pkg = "whyline"
                /\ InvalidProjects(references, allowed.projects, allowed.datasets) # {}
          [] stage = "datasets" ->
                /\ c.pkg = "whyline"
                /\ InvalidDatasets(references, allowed.projects, allowed.datasets) # {}
          [] stage = "partition" ->
                /\ c.engine = "bigquery"
                /\ PartitionHit(_ensure_limit(parsed, c.enforce_limit),
                                c.partition_columns, 1) # None

StageName(r) == IF r.stage \in {"not_select", "cte_no_select"} THEN "prefix" ELSE r.stage

\* C10: the error raised is that of the earliest stage, in the order empty,
\* single statement, SELECT/WITH prefix, denylist, tables, projects,
\* datasets, partition, whose rule the input breaks.
C10_EarliestStageRaises ==
    pc # "start" =>
        \A k \in 1..Len(StageOrder) :
            (/\ Breaks(StageOrder[k], sqlIn, cfg)
             /\ \A j \in 1..(k - 1) : ~Breaks(StageOrder[j], sqlIn, cfg))
            => StageName(res) = StageOrder[k]

\* C10 witness: a statement with a denylisted keyword, an unauthorized table
\* and a foreign project was rejected for the keyword.
C10_Witness ==
    /\ pc = "sanitized"
    /\ Breaks("denylist", sqlIn, cfg)
    /\ Breaks("tables", sqlIn, cfg)
    /\ Breaks("projects", sqlIn, cfg)
    /\ ~Breaks("multiple", sqlIn, cfg)
    /\ res.stage = "denylist"

====
